---- MODULE Spec2Model ----
(***************************************************************************)
(* Model of the ai-stylist image-to-attribute pipeline: the filename       *)
(* category classifier, the HSV colour classification and the dominant     *)
(* colour detection of the wardrobe manager (src/unnamed/part_000), of     *)
(* the store and the upload chain, of the proxy in front of the AI         *)
(* service, and of the upload, wardrobe, chat and try-on pages.            *)
(***************************************************************************)
EXTENDS Integers, Sequences, FiniteSets, TLC

VARIABLES
    pc,         \* position of the operation under way
    filename,   \* detect_category: the filename given (sequence of characters)
    category,   \* detect_category: the value returned
    rgb,        \* _rgb_to_color_name: the RGB triple given
    hsv,        \* classify_color: the (h, s, v) triple given, as exact fractions
    colorName,  \* the colour name returned
    image,      \* the decoded, resized image: pixel value -> number of pixels
    pixels,     \* _detect_dominant_color: pixels
    non_white_pixels,   \* _detect_dominant_color: non_white_pixels
    kmeans,     \* the fitted KMeans: cluster_centers_, labels_, label counts
    results,    \* what each call of _detect_dominant_color on the image gave
    mt42,       \* the generator state that seeding with 42 yields
    np_random,  \* the state of numpy's global generator
    disk,       \* the wardrobe directory: filename -> content of the file
    metadata,   \* WardrobeManager.metadata: the stored records, in order
    created,    \* for each stored record, what it was when it was created
    uuids,      \* the number of identifiers uuid.uuid4() has given so far
    request,    \* the upload request under way, and where it is
    outcomes,   \* what each call of _analyze_image for an upload gave
    acceptedFiles,  \* upload page, onDrop: the files not yet settled
    isUploading,    \* upload page: isUploading
    uploadedItems,  \* upload page: uploadedItems
    error,      \* upload page: error
    regens,     \* the number of regenerate-metadata requests served
    posted,     \* the number of upload requests sent so far
    detected,   \* what _detect_dominant_color gives for each content (a table)
    calls,      \* concurrent invocations: position, input and result of each
    frames,     \* concurrent invocations: the local variables of each call
    drops,      \* upload page: the calls of onDrop, each with its files
    wardrobeItems,      \* wardrobe page and try-on page: wardrobeItems
    filteredItems,      \* wardrobe page: filteredItems
    selectedCategory,   \* wardrobe page: selectedCategory
    selectedColor,      \* wardrobe page: selectedColor
    searchTerm,         \* wardrobe page: searchTerm
    effectPending,      \* wardrobe page: the filter effect is still to run
    handled,    \* proxy: the requests handled, each with its answer
    aiRequests, \* proxy: the requests sent to the AI service
    messages,   \* chat page: messages
    input,      \* chat page: input
    isLoading,  \* chat page: isLoading
    rendered,   \* chat page: input and isLoading as handleSend sees them
    asks,       \* chat page: the calls of handleSend, position of each
    outfit,     \* try-on page: outfit, the slot of each category
    currentIndices      \* try-on page: currentIndices

pipelineVars == <<pc, filename, category, rgb, hsv, colorName, image, pixels,
                  non_white_pixels, kmeans, results, mt42, np_random>>

storeVars == <<disk, metadata, created, uuids, request, outcomes,
               acceptedFiles, isUploading, uploadedItems, error, regens,
               posted>>

tableVars == <<detected>>

callVars == <<calls, frames>>

dropVars == <<drops>>

wardrobeVars == <<wardrobeItems, filteredItems, selectedCategory,
                  selectedColor, searchTerm, effectPending>>

proxyVars == <<handled, aiRequests>>

chatVars == <<messages, input, isLoading, rendered, asks>>

tryOnVars == <<outfit, currentIndices>>

pageVars == <<dropVars, wardrobeVars, proxyVars, chatVars, tryOnVars>>

vars == <<pipelineVars, storeVars, callVars, tableVars, pageVars>>

(***************************************************************************)
(* Characters and strings.  A string is a sequence of characters; a        *)
(* character is a one-letter string, except "long_s" which stands for      *)
(* U+017F (LATIN SMALL LETTER LONG S), a lower-case letter whose           *)
(* upper-case form is "S".                                                 *)
(***************************************************************************)
LowerLetters == <<"a","b","c","d","e","f","g","h","i","j","k","l","m",
                  "n","o","p","q","r","s","t","u","v","w","x","y","z">>

UpperLetters == <<"A","B","C","D","E","F","G","H","I","J","K","L","M",
                  "N","O","P","Q","R","S","T","U","V","W","X","Y","Z">>

LetterIndex(letters, c) == CHOOSE i \in 1..Len(letters) : letters[i] = c

IsIn(letters, c) == \E i \in 1..Len(letters) : letters[i] = c

\* str.lower() on one character
LowerChar(c) == IF IsIn(UpperLetters, c)
                THEN LowerLetters[LetterIndex(UpperLetters, c)]
                ELSE c

\* str.upper() on one character
UpperChar(c) == IF IsIn(LowerLetters, c)
                THEN UpperLetters[LetterIndex(LowerLetters, c)]
                ELSE IF c = "long_s" THEN "S" ELSE c

\* str.lower()
Lower(str) == [i \in 1..Len(str) |-> LowerChar(str[i])]

\* str.upper()
Upper(str) == [i \in 1..Len(str) |-> UpperChar(str[i])]

\* Python's  pat in str
Contains(str, pat) ==
    \E i \in 0..(Len(str) - Len(pat)) :
        \A j \in 1..Len(pat) : str[i + j] = pat[j]

P_tshirt  == <<"t","s","h","i","r","t">>
P_t_shirt == <<"t","-","s","h","i","r","t">>
P_shirt   == <<"s","h","i","r","t">>
P_jean    == <<"j","e","a","n">>
P_denim   == <<"d","e","n","i","m">>
P_trouser == <<"t","r","o","u","s","e","r">>
P_pant    == <<"p","a","n","t">>
P_shoe    == <<"s","h","o","e">>
P_suit    == <<"s","u","i","t">>

Categories == {"shirt", "tshirt", "jeans", "trousers", "shoes", "suit", "other"}

(***************************************************************************)
(* detect_category.  The source lists the first four rules and then        *)
(* "# ... additional patterns"; additional_patterns is the rest of the     *)
(* chain (shoes, suit, and the final other).                               *)
(***************************************************************************)
additional_patterns(name) ==
    IF Contains(name, P_shoe) THEN "shoes"
    ELSE IF Contains(name, P_suit) THEN "suit"
    ELSE "other"

\* mutant: the shirt rule tested before the tshirt rule
detect_category_shirt_first(fname) ==
    LET name == Lower(fname) IN
    IF Contains(name, P_shirt) THEN "shirt"
    ELSE IF Contains(name, P_tshirt) \/ Contains(name, P_t_shirt) THEN "tshirt"
    ELSE IF Contains(name, P_jean) \/ Contains(name, P_denim) THEN "jeans"
    ELSE IF Contains(name, P_trouser) \/ Contains(name, P_pant) THEN "trousers"
    ELSE additional_patterns(name)

\* mutant: the trousers rule returns a label outside the taxonomy
detect_category_pants(fname) ==
    LET name == Lower(fname) IN
    IF Contains(name, P_tshirt) \/ Contains(name, P_t_shirt) THEN "tshirt"
    ELSE IF Contains(name, P_shirt) THEN "shirt"
    ELSE IF Contains(name, P_jean) \/ Contains(name, P_denim) THEN "jeans"
    ELSE IF Contains(name, P_trouser) \/ Contains(name, P_pant) THEN "pants"
    ELSE additional_patterns(name)

\* mutant: the patterns are looked up in the filename as given
detect_category_no_lower(fname) ==
    LET name == fname IN
    IF Contains(name, P_tshirt) \/ Contains(name, P_t_shirt) THEN "tshirt"
    ELSE IF Contains(name, P_shirt) THEN "shirt"
    ELSE IF Contains(name, P_jean) \/ Contains(name, P_denim) THEN "jeans"
    ELSE IF Contains(name, P_trouser) \/ Contains(name, P_pant) THEN "trousers"
    ELSE additional_patterns(name)

detect_category(fname) ==
    LET name == Lower(fname) IN
    IF Contains(name, P_tshirt) \/ Contains(name, P_t_shirt) THEN "tshirt"
    ELSE IF Contains(name, P_shirt) THEN "shirt"
    ELSE IF Contains(name, P_jean) \/ Contains(name, P_denim) THEN "jeans"
    ELSE IF Contains(name, P_trouser) \/ Contains(name, P_pant) THEN "trousers"
    ELSE additional_patterns(name)

(***************************************************************************)
(* Filenames given to the classifier: up to MaxFrags fragments, some of    *)
(* them in upper case, and the filenames the specification names.          *)
(***************************************************************************)
MaxFrags == 3

Fragments == { <<"t">>, <<"-">>, P_shirt, P_jean, P_denim, P_trouser, P_pant,
               P_shoe, P_suit, <<"long_s","h","i","r","t">>, <<".","p","n","g">> }

CasedFragments == Fragments \cup { Upper(<<"t">>), Upper(P_shirt), Upper(P_jean) }

RECURSIVE Concat(_)
Concat(frags) == IF frags = <<>> THEN <<>>
                 ELSE Head(frags) \o Concat(Tail(frags))

FragmentSeqs == UNION { [1..n -> CasedFragments] : n \in 0..MaxFrags }

BlueTshirtCasualPng ==
    <<"b","l","u","e","-">> \o P_tshirt \o <<"-","c","a","s","u","a","l">>
    \o <<".","p","n","g">>

DenimTrouserJpg == P_denim \o <<"-">> \o P_trouser \o <<".","j","p","g">>

Filenames == { Concat(fs) : fs \in FragmentSeqs }
             \cup { BlueTshirtCasualPng, DenimTrouserJpg }

(***************************************************************************)
(* Colour classification.  Real numbers are exact fractions [n, d] with    *)
(* d > 0; comparisons with the thresholds are made by cross                *)
(* multiplication.                                                         *)
(***************************************************************************)
Frac(num, den) == [n |-> num, d |-> den]

\* q < num/den
Lt(q, num, den) == q.n * den < num * q.d

\* q > num/den
Gt(q, num, den) == q.n * den > num * q.d

Max3(a, b, c) == IF a >= b /\ a >= c THEN a ELSE IF b >= c THEN b ELSE c

Min3(a, b, c) == IF a <= b /\ a <= c THEN a ELSE IF b <= c THEN b ELSE c

\* rgb / 255.0 followed by colorsys.rgb_to_hsv, and h * 360.  The channels
\* of the triple are given in units of 1/scale of an 8-bit level.
rgb_to_hsv(triple, scale) ==
    LET r == triple[1]
        g == triple[2]
        b == triple[3]
        maxc == Max3(r, g, b)
        minc == Min3(r, g, b)
        delta == maxc - minc
        hn == IF r = maxc THEN 60 * (g - b)
              ELSE IF g = maxc THEN 120 * delta + 60 * (b - r)
              ELSE 240 * delta + 60 * (r - g)
    IN  IF minc = maxc
        THEN [h |-> Frac(0, 1), s |-> Frac(0, 1), v |-> Frac(maxc, 255 * scale)]
        ELSE [h |-> Frac(hn % (360 * delta), delta),
              s |-> Frac(delta, maxc),
              v |-> Frac(maxc, 255 * scale)]

\* mutant: the dark gray step ends at 0.5 instead of 0.35
classify_grayscale_shifted(v) ==
    IF Lt(v, 20, 100) THEN "black"
    ELSE IF Lt(v, 50, 100) THEN "dark gray"
    ELSE IF Lt(v, 65, 100) THEN "gray"
    ELSE IF Lt(v, 85, 100) THEN "light gray"
    ELSE "white"

\* mutant: the last step of the ladder is a test that v = 1 does not pass
classify_grayscale_gap(v) ==
    IF Lt(v, 20, 100) THEN "black"
    ELSE IF Lt(v, 35, 100) THEN "dark gray"
    ELSE IF Lt(v, 65, 100) THEN "gray"
    ELSE IF Lt(v, 85, 100) THEN "light gray"
    ELSE IF Lt(v, 1, 1) THEN "white"
    ELSE "none"

\* the grayscale ladder of classify_color (_classify_grayscale)
classify_grayscale(v) ==
    IF Lt(v, 20, 100) THEN "black"
    ELSE IF Lt(v, 35, 100) THEN "dark gray"
    ELSE IF Lt(v, 65, 100) THEN "gray"
    ELSE IF Lt(v, 85, 100) THEN "light gray"
    ELSE "white"

(***************************************************************************)
(* The shade functions and the hue ranges after orange are not in the      *)
(* source ("# ... additional hue ranges"); they follow the specification:  *)
(* hue bands red, orange, yellow, green, cyan, blue, purple, pink, each    *)
(* refined by saturation and value into shade variants and named special   *)
(* cases.                                                                  *)
(***************************************************************************)
shade_variant(dark, pale, light, plain, s, v) ==
    IF Lt(v, 60, 100) THEN dark
    ELSE IF Lt(s, 30, 100) /\ Gt(v, 80, 100) THEN pale
    ELSE IF Lt(s, 50, 100) THEN light
    ELSE plain

classify_red_spectrum(s, v) ==
    shade_variant("dark red", "light red", "light red", "red", s, v)

classify_orange_spectrum(s, v) ==
    shade_variant("brown", "beige", "light orange", "orange", s, v)

additional_hue_ranges(h, s, v) ==
    IF Lt(h, 75, 1)
    THEN shade_variant("khaki", "light yellow", "light yellow", "yellow", s, v)
    ELSE IF Lt(h, 165, 1)
    THEN shade_variant("dark green", "light green", "light green", "green", s, v)
    ELSE IF Lt(h, 195, 1)
    THEN shade_variant("dark cyan", "light cyan", "light cyan", "cyan", s, v)
    ELSE IF Lt(h, 255, 1)
    THEN shade_variant("navy", "powder blue", "light blue", "blue", s, v)
    ELSE IF Lt(h, 285, 1)
    THEN shade_variant("dark purple", "light purple", "light purple", "purple", s, v)
    ELSE shade_variant("dark pink", "light pink", "light pink", "pink", s, v)

GrayNames   == {"black", "dark gray", "gray", "light gray", "white"}
RedNames    == {"dark red", "light red", "red"}
OrangeNames == {"brown", "beige", "light orange", "orange"}
YellowNames == {"khaki", "light yellow", "yellow"}
GreenNames  == {"dark green", "light green", "green"}
CyanNames   == {"dark cyan", "light cyan", "cyan"}
BlueNames   == {"navy", "powder blue", "light blue", "blue"}
PurpleNames == {"dark purple", "light purple", "purple"}
PinkNames   == {"dark pink", "light pink", "pink"}

Palette == GrayNames \cup RedNames \cup OrangeNames \cup YellowNames
           \cup GreenNames \cup CyanNames \cup BlueNames \cup PurpleNames
           \cup PinkNames

\* mutant: the red band is not continued below 360 degrees
classify_color_no_wrap(h, s, v) ==
    IF Lt(s, 15, 100) THEN classify_grayscale(v)
    ELSE IF Lt(h, 15, 1) THEN classify_red_spectrum(s, v)
    ELSE IF Lt(h, 45, 1) THEN classify_orange_spectrum(s, v)
    ELSE additional_hue_ranges(h, s, v)

classify_color(h, s, v) ==
    IF Lt(s, 15, 100) THEN classify_grayscale(v)
    ELSE IF Lt(h, 15, 1) \/ Gt(h, 345, 1) THEN classify_red_spectrum(s, v)
    ELSE IF Lt(h, 45, 1) THEN classify_orange_spectrum(s, v)
    ELSE additional_hue_ranges(h, s, v)

\* _rgb_to_color_name
rgb_to_color_name(triple, scale) ==
    LET c == rgb_to_hsv(triple, scale) IN classify_color(c.h, c.s, c.v)

(***************************************************************************)
(* Dominant colour detection (_detect_dominant_color).  An image is, after *)
(* convert('RGB').resize((300, 300)) and reshape(-1, 3), a collection of   *)
(* IMG_SIDE * IMG_SIDE pixels; it is held as the number of pixels of each  *)
(* pixel value.                                                            *)
(***************************************************************************)
IMG_SIDE == 300

NumPixels == IMG_SIDE * IMG_SIDE

WHITE_SUM == 700

n_clusters == 3

n_init == 3

max_iter == 100

White    == <<255, 255, 255>>
PaleBlue == <<215, 230, 255>>
Blue     == <<30, 30, 150>>
Red      == <<200, 30, 30>>
Gray     == <<128, 128, 128>>
Black    == <<0, 0, 0>>

PixelSeq == <<White, PaleBlue, Blue, Red, Gray, Black>>

PixelValues == {PixelSeq[i] : i \in 1..Len(PixelSeq)}

Sum3(p) == p[1] + p[2] + p[3]

NoPixels == [p \in PixelValues |-> 0]

RECURSIVE TotalFrom(_, _)
TotalFrom(bag, i) ==
    IF i > Len(PixelSeq) THEN 0
    ELSE bag[PixelSeq[i]] + TotalFrom(bag, i + 1)

\* len(X)
n_samples(bag) == TotalFrom(bag, 1)

\* pixels[np.sum(pixels, axis=1) < 700]
background_removal(px) ==
    [p \in PixelValues |-> IF Sum3(p) < WHITE_SUM THEN px[p] ELSE 0]

(***************************************************************************)
(* KMeans(n_clusters=3, random_state=42, n_init=3).fit(X).  Centres are    *)
(* held in fixed point, CentroidScale units to one 8-bit level.  Labels    *)
(* are held per pixel value, in the order of PixelSeq (0: no such pixel).  *)
(***************************************************************************)
CentroidScale == 100

RngPeriod == 12

Support(X) == {p \in PixelValues : X[p] > 0}

Scaled(p) == <<p[1] * CentroidScale, p[2] * CentroidScale, p[3] * CentroidScale>>

Dist2(a, b) == (a[1] - b[1]) * (a[1] - b[1]) + (a[2] - b[2]) * (a[2] - b[2])
               + (a[3] - b[3]) * (a[3] - b[3])

\* mutant: random_state=None, the global generator is drawn from
check_random_state_none(seeded, global) == [state |-> global, is_global |-> TRUE]

\* check_random_state(42): a fresh generator seeded with 42
check_random_state(seeded, global) == [state |-> seeded, is_global |-> FALSE]

\* k-means++ seeding: the first centre is a data point; each further one
\* is a data point away from the centres chosen so far, when there is one.
kmeans_plusplus(X, rs) ==
    LET Present(p) == X[p] > 0
        vals == SelectSeq(PixelSeq, Present)
        d == Len(vals)
        c1 == vals[(rs % d) + 1]
        Not1(p) == X[p] > 0 /\ p # c1
        cand2 == SelectSeq(PixelSeq, Not1)
        c2 == IF cand2 = <<>> THEN c1
              ELSE cand2[((rs \div d) % Len(cand2)) + 1]
        Not12(p) == X[p] > 0 /\ p # c1 /\ p # c2
        cand3 == SelectSeq(PixelSeq, Not12)
        c3 == IF cand3 = <<>> THEN c2
              ELSE cand3[((rs \div (d * (d - 1))) % Len(cand3)) + 1]
    IN  <<Scaled(c1), Scaled(c2), Scaled(c3)>>

\* the index of the nearest centre, the first one among equals (argmin)
Label(p, centers) ==
    LET sp == Scaled(p)
        d1 == Dist2(sp, centers[1])
        d2 == Dist2(sp, centers[2])
        d3 == Dist2(sp, centers[3])
    IN  IF d1 <= d2 /\ d1 <= d3 THEN 1 ELSE IF d2 <= d3 THEN 2 ELSE 3

RECURSIVE LabelsFrom(_, _, _)
LabelsFrom(X, centers, i) ==
    IF i > Len(PixelSeq) THEN <<>>
    ELSE <<IF X[PixelSeq[i]] = 0 THEN 0 ELSE Label(PixelSeq[i], centers)>>
         \o LabelsFrom(X, centers, i + 1)

\* labels_ for the centres given
Labels(X, centers) == LabelsFrom(X, centers, 1)

\* the number of pixels labelled k
RECURSIVE ClusterCount(_, _, _, _)
ClusterCount(X, lab, k, i) ==
    IF i > Len(PixelSeq) THEN 0
    ELSE (IF lab[i] = k THEN X[PixelSeq[i]] ELSE 0)
         + ClusterCount(X, lab, k, i + 1)

\* the sum of channel ch over the pixels labelled k
RECURSIVE ClusterSum(_, _, _, _, _)
ClusterSum(X, lab, k, ch, i) ==
    IF i > Len(PixelSeq) THEN 0
    ELSE (IF lab[i] = k THEN X[PixelSeq[i]] * PixelSeq[i][ch] ELSE 0)
         + ClusterSum(X, lab, k, ch, i + 1)

\* floor(sum * CentroidScale / n) without leaving 32 bits
FixedMean(sum, n) ==
    (sum \div n) * CentroidScale + ((sum % n) * CentroidScale) \div n

\* the mean of the pixels labelled k; a cluster without pixels keeps its centre
ClusterMean(X, lab, centers, k) ==
    LET n == ClusterCount(X, lab, k, 1)
    IN  IF n = 0 THEN centers[k]
        ELSE <<FixedMean(ClusterSum(X, lab, k, 1, 1), n),
               FixedMean(ClusterSum(X, lab, k, 2, 1), n),
               FixedMean(ClusterSum(X, lab, k, 3, 1), n)>>

\* one iteration: every pixel to its nearest centre, every centre to the
\* mean of its pixels
lloyd_iter(X, centers) ==
    LET lab == Labels(X, centers)
    IN  <<ClusterMean(X, lab, centers, 1), ClusterMean(X, lab, centers, 2),
          ClusterMean(X, lab, centers, 3)>>

RECURSIVE kmeans_single(_, _, _)
kmeans_single(X, centers, iter) ==
    LET next == lloyd_iter(X, centers)
    IN  IF next = centers \/ iter >= max_iter THEN next
        ELSE kmeans_single(X, next, iter + 1)

\* the squared distance, in whole squared levels, of p to its nearest centre
PointInertia(p, centers) ==
    Dist2(Scaled(p), centers[Label(p, centers)])
    \div (CentroidScale * CentroidScale)

\* inertia, in whole squared levels, as <<thousands, units>> before carry
RECURSIVE InertiaFrom(_, _, _)
InertiaFrom(X, centers, i) ==
    IF i > Len(PixelSeq) THEN <<0, 0>>
    ELSE LET n == X[PixelSeq[i]]
             q2 == IF n = 0 THEN 0 ELSE PointInertia(PixelSeq[i], centers)
             rest == InertiaFrom(X, centers, i + 1)
         IN  <<rest[1] + (n \div 1000) * q2, rest[2] + (n % 1000) * q2>>

Inertia(X, centers) ==
    LET parts == InertiaFrom(X, centers, 1)
    IN  <<parts[1] + parts[2] \div 1000, parts[2] % 1000>>

InertiaLess(a, b) == a[1] < b[1] \/ (a[1] = b[1] /\ a[2] < b[2])

\* the n_init runs, each from its own seeding; the first of least inertia
RECURSIVE best_of(_, _, _, _)
best_of(X, rs, run, best) ==
    IF run >= n_init THEN best.centers
    ELSE LET c == kmeans_single(X, kmeans_plusplus(X, (rs + run) % RngPeriod), 1)
             i == Inertia(X, c)
         IN  IF run = 0 \/ InertiaLess(i, best.inertia)
             THEN best_of(X, rs, run + 1, [centers |-> c, inertia |-> i])
             ELSE best_of(X, rs, run + 1, best)

\* KMeans.fit: ValueError for no sample or fewer samples than clusters
kmeans_fit(X, rs) ==
    IF n_samples(X) < n_clusters
    THEN [ok |-> FALSE]
    ELSE LET c == best_of(X, rs, 0, [centers |-> <<>>, inertia |-> <<0, 0>>])
             lab == Labels(X, c)
         IN  [ok |-> TRUE,
              cluster_centers |-> c,
              labels |-> lab,
              label_counts |-> <<ClusterCount(X, lab, 1, 1),
                                 ClusterCount(X, lab, 2, 1),
                                 ClusterCount(X, lab, 3, 1)>>]

\* mutant: the first index of the smallest count
argmax_smallest(counts) ==
    IF counts[1] <= counts[2] /\ counts[1] <= counts[3] THEN 1
    ELSE IF counts[2] <= counts[3] THEN 2 ELSE 3

\* np.argmax(label_counts): the first index of the largest count
argmax(counts) ==
    IF counts[1] >= counts[2] /\ counts[1] >= counts[3] THEN 1
    ELSE IF counts[2] >= counts[3] THEN 2 ELSE 3

(***************************************************************************)
(* Inputs.                                                                 *)
(***************************************************************************)
MaxColors == 3

MaxRuns == 2

RgbGrid == 4

HueGrid == 24

SatGrid == 20

ValGrid == 20

GarmentCounts == {1, 9000}

RECURSIVE SumOver(_, _)
SumOver(cnt, S) == IF S = {} THEN 0
                    ELSE LET p == CHOOSE q \in S : TRUE
                         IN  cnt[p] + SumOver(cnt, S \ {p})

\* an image of background bg and the garment colours G, cnt[p] pixels of p
MakeImage(bg, G, cnt) ==
    [p \in PixelValues |->
        IF p \in G THEN cnt[p]
        ELSE IF p = bg THEN NumPixels - SumOver(cnt, G)
        ELSE 0]

Images ==
    UNION { UNION { { MakeImage(bg, G, cnt) : cnt \in [G -> GarmentCounts] } :
                    G \in { H \in SUBSET (PixelValues \ {bg}) :
                              Cardinality(H) <= MaxColors } } :
            bg \in PixelValues }

RgbLevels == { (255 * k) \div RgbGrid : k \in 0..RgbGrid }

PureRed == <<255, 0, 0>>

Red350  == <<255, 0, 43>>

RgbInputs == (RgbLevels \X RgbLevels \X RgbLevels)
             \cup {Black, Gray, White, PureRed, Red350}

HsvInputs == { [h |-> Frac(360 * i, HueGrid), s |-> Frac(j, SatGrid),
                v |-> Frac(k, ValGrid)] :
               i \in 0..HueGrid, j \in 0..SatGrid, k \in 0..ValGrid }

None == "None"

NoRgb == <<>>

NoImage == [p \in PixelValues |-> 0]

(***************************************************************************)
(* Record assembly (_analyze_image).  Names of colours and categories are  *)
(* strings; Chars gives the characters of a name, so that str.title() and  *)
(* the description are computed character by character.                    *)
(***************************************************************************)
\* the characters of a colour or category name
Chars(str) ==
    CASE str = "black" -> <<"b","l","a","c","k">>
      [] str = "dark gray" -> <<"d","a","r","k"," ","g","r","a","y">>
      [] str = "gray" -> <<"g","r","a","y">>
      [] str = "light gray" -> <<"l","i","g","h","t"," ","g","r","a","y">>
      [] str = "white" -> <<"w","h","i","t","e">>
      [] str = "dark red" -> <<"d","a","r","k"," ","r","e","d">>
      [] str = "light red" -> <<"l","i","g","h","t"," ","r","e","d">>
      [] str = "red" -> <<"r","e","d">>
      [] str = "brown" -> <<"b","r","o","w","n">>
      [] str = "beige" -> <<"b","e","i","g","e">>
      [] str = "light orange" -> <<"l","i","g","h","t"," ","o","r","a","n","g","e">>
      [] str = "orange" -> <<"o","r","a","n","g","e">>
      [] str = "khaki" -> <<"k","h","a","k","i">>
      [] str = "light yellow" -> <<"l","i","g","h","t"," ","y","e","l","l","o","w">>
      [] str = "yellow" -> <<"y","e","l","l","o","w">>
      [] str = "dark green" -> <<"d","a","r","k"," ","g","r","e","e","n">>
      [] str = "light green" -> <<"l","i","g","h","t"," ","g","r","e","e","n">>
      [] str = "green" -> <<"g","r","e","e","n">>
      [] str = "dark cyan" -> <<"d","a","r","k"," ","c","y","a","n">>
      [] str = "light cyan" -> <<"l","i","g","h","t"," ","c","y","a","n">>
      [] str = "cyan" -> <<"c","y","a","n">>
      [] str = "navy" -> <<"n","a","v","y">>
      [] str = "powder blue" -> <<"p","o","w","d","e","r"," ","b","l","u","e">>
      [] str = "light blue" -> <<"l","i","g","h","t"," ","b","l","u","e">>
      [] str = "blue" -> <<"b","l","u","e">>
      [] str = "dark purple" -> <<"d","a","r","k"," ","p","u","r","p","l","e">>
      [] str = "light purple" -> <<"l","i","g","h","t"," ","p","u","r","p","l","e">>
      [] str = "purple" -> <<"p","u","r","p","l","e">>
      [] str = "dark pink" -> <<"d","a","r","k"," ","p","i","n","k">>
      [] str = "light pink" -> <<"l","i","g","h","t"," ","p","i","n","k">>
      [] str = "pink" -> <<"p","i","n","k">>
      [] str = "shirt" -> <<"s","h","i","r","t">>
      [] str = "tshirt" -> <<"t","s","h","i","r","t">>
      [] str = "jeans" -> <<"j","e","a","n","s">>
      [] str = "trousers" -> <<"t","r","o","u","s","e","r","s">>
      [] str = "shoes" -> <<"s","h","o","e","s">>
      [] str = "suit" -> <<"s","u","i","t">>
      [] str = "other" -> <<"o","t","h","e","r">>
      [] str = "dress" -> <<"d","r","e","s","s">>

IsCased(c) == IsIn(LowerLetters, c) \/ IsIn(UpperLetters, c) \/ c = "long_s"

\* str.title(): a cased character after an uncased one (or at the start)
\* is put in upper case, a cased character after a cased one in lower case
Title(str) ==
    [i \in 1..Len(str) |->
        IF i > 1 /\ IsCased(str[i - 1]) THEN LowerChar(str[i])
        ELSE UpperChar(str[i])]

\* f"{color.title()} {category}"
description_of(color, cat) == Title(Chars(color)) \o <<" ">> \o Chars(cat)

(***************************************************************************)
(* Files.  A file of the wardrobe directory has a name and a content; the  *)
(* content is either no image at all ("corrupt") or decodes to an image.   *)
(***************************************************************************)
ShirtPng == P_shirt \o <<".","p","n","g">>

NavyJeans01Jpg == <<"n","a","v","y","_">> \o P_jean
                  \o <<"s","_","0","1",".","j","p","g">>

StoreFilenames == {ShirtPng, NavyJeans01Jpg}

Decodable == {"white", "navy", "mixed"}

Contents == Decodable \cup {"corrupt"}

Absent == "absent"

\* Image.open(file_path), convert('RGB'), resize((300, 300)), reshape(-1, 3)
\* of a decodable content: all white; four pixels in five white and one in
\* five (30,30,150); eight in ten white, one in ten (30,30,150) and one in
\* ten (200,30,30), two clusters of the same size
Image_open(content) ==
    CASE content = "white" -> MakeImage(White, {}, <<>>)
      [] content = "navy"  -> MakeImage(White, {Blue}, [p \in {Blue} |-> NumPixels \div 5])
      [] content = "mixed" -> MakeImage(White, {Blue, Red},
                                        [p \in {Blue, Red} |-> NumPixels \div 10])

\* np.array(img): the pixel counts as an array, from the i-th value on
RECURSIVE ArrayFrom(_, _)
ArrayFrom(img, i) ==
    IF i = Len(PixelSeq) THEN PixelSeq[i] :> img[PixelSeq[i]]
    ELSE (PixelSeq[i] :> img[PixelSeq[i]]) @@ ArrayFrom(img, i + 1)

\* _detect_dominant_color: the name, or the exception that leaves it; with
\* the state of the global generator afterwards
detect_dominant_color(content, seeded, global) ==
    IF content \notin Decodable
    THEN [ok |-> FALSE, error |-> "DecodeError", np_random |-> global]
    ELSE LET X == ArrayFrom(background_removal(ArrayFrom(Image_open(content), 1)), 1)
             rng == check_random_state(seeded, global)
             fit == kmeans_fit(X, rng.state)
             after == IF rng.is_global THEN (global + n_init) % RngPeriod
                      ELSE global
         IN  IF fit.ok
             THEN [ok |-> TRUE,
                   color |-> rgb_to_color_name(
                                 fit.cluster_centers[argmax(fit.label_counts)],
                                 CentroidScale),
                   np_random |-> after]
             ELSE [ok |-> FALSE, error |-> "ValueError", np_random |-> after]

\* detect_dominant_color of a content for every state of the global
\* generator, from the given one on
RECURSIVE DetectGlobals(_, _, _)
DetectGlobals(content, seeded, global) ==
    IF global = RngPeriod THEN <<>>
    ELSE <<detect_dominant_color(content, seeded, global)>>
         \o DetectGlobals(content, seeded, global + 1)

\* detect_dominant_color tabulated for the generator state seeded
Detected(seeded) == [c \in Contents |-> DetectGlobals(c, seeded, 0)]

\* self._detect_dominant_color(file_path), read from the table
dominant_color(content, global) == detected[content][global + 1]

\* uuid.uuid4() after n identifiers were given: one not given before
uuid4(n) == n + 1

WardrobeDir == <<"w","a","r","d","r","o","b","e","/">>

\* str(file_path.relative_to(self.wardrobe_path.parent))
relative_path(name) == WardrobeDir \o name

\* mutant: a content that cannot be analysed gets a default colour
analyze_image_default(name, content, uuid, global) ==
    LET color == dominant_color(content, global)
        name_of == IF color.ok THEN color.color ELSE "gray"
    IN  [ok |-> TRUE,
         item |-> [id |-> uuid, filename |-> name,
                   category |-> detect_category(name), color |-> name_of,
                   path |-> relative_path(name),
                   description |-> description_of(name_of, detect_category(name))],
         np_random |-> color.np_random]

\* mutant: the identifier is made from the filename instead of uuid.uuid4()
analyze_image_name_id(name, content, uuid, global) ==
    LET color == dominant_color(content, global)
    IN  IF color.ok
        THEN [ok |-> TRUE,
              item |-> [id |-> Len(name), filename |-> name,
                        category |-> detect_category(name), color |-> color.color,
                        path |-> relative_path(name),
                        description |-> description_of(color.color, detect_category(name))],
              np_random |-> color.np_random]
        ELSE [ok |-> FALSE, error |-> color.error, np_random |-> color.np_random]

\* mutant: the description is composed from the colour and the filename
analyze_image_name_description(name, content, uuid, global) ==
    LET color == dominant_color(content, global)
    IN  IF color.ok
        THEN [ok |-> TRUE,
              item |-> [id |-> uuid, filename |-> name,
                        category |-> detect_category(name), color |-> color.color,
                        path |-> relative_path(name),
                        description |-> Title(Chars(color.color)) \o <<" ">> \o name],
              np_random |-> color.np_random]
        ELSE [ok |-> FALSE, error |-> color.error, np_random |-> color.np_random]

\* _analyze_image(file_path), uuid being what uuid.uuid4() gives: the
\* record, or the exception of the colour detection
analyze_image(name, content, uuid, global) ==
    LET cat == detect_category(name)
        color == dominant_color(content, global)
    IN  IF color.ok
        THEN [ok |-> TRUE,
              item |-> [id |-> uuid, filename |-> name, category |-> cat,
                        color |-> color.color, path |-> relative_path(name),
                        description |-> description_of(color.color, cat)],
              np_random |-> color.np_random]
        ELSE [ok |-> FALSE, error |-> color.error, np_random |-> color.np_random]


(***************************************************************************)
(* The metadata store and the requests that change it.  The handlers of    *)
(* the AI service (POST /upload, POST /regenerate-metadata) call           *)
(* _analyze_image; an upload comes from the upload page through the proxy  *)
(* or from a client of the AI service, which may give a category.          *)
(***************************************************************************)
MaxUploads == 2

MaxRegens == 2

\* the values a client gives as  category  of an UploadRequest
Overrides == {"jeans", "dress"}

NoError == "null"

Undefined == "undefined"

NoResponse == [status |-> 0]

NoRequest == [stage |-> "idle", via |-> None, name |-> <<>>, content |-> Absent,
              override |-> None, response |-> NoResponse]

\* UploadRequest.category: the category of the record when it is given
category_override(cat, override) ==
    IF override = None THEN cat ELSE override

\* a record with its category replaced and its description composed anew
with_category(item, cat) ==
    [item EXCEPT !.category = cat,
                 !.description = description_of(item.color, cat)]

\* mutant: re-analysis puts the record of the new analysis in the place of
\* the stored one
regenerate_item_replace(item, fresh) == fresh

\* re-analysis of one record: category, color and description are replaced
regenerate_item(item, fresh) ==
    [item EXCEPT !.category = fresh.category, !.color = fresh.color,
                 !.description = fresh.description]

\* re-analysis of the records from the k-th on, in order; n identifiers
\* have been given so far; an exception of _analyze_image ends it
RECURSIVE regenerate_from(_, _, _, _, _)
regenerate_from(items, k, files, n, global) ==
    IF k > Len(items)
    THEN [ok |-> TRUE, metadata |-> items, uuids |-> n, np_random |-> global]
    ELSE LET r == analyze_image(items[k].filename, files[items[k].filename],
                                uuid4(n), global)
         IN  IF r.ok
             THEN regenerate_from(
                      [items EXCEPT ![k] = regenerate_item(items[k], r.item)],
                      k + 1, files, n + 1, r.np_random)
             ELSE [ok |-> FALSE, metadata |-> items, uuids |-> n,
                   np_random |-> r.np_random]

\* obj.field of JavaScript
Get(obj, field) == IF field \in DOMAIN obj THEN obj[field] ELSE Undefined

IdleStore ==
    /\ disk = [n \in StoreFilenames |-> Absent]
    /\ metadata = <<>> /\ created = <<>> /\ uuids = 0
    /\ request = NoRequest /\ outcomes = <<>>
    /\ acceptedFiles = <<>> /\ isUploading = FALSE
    /\ uploadedItems = <<>> /\ error = NoError
    /\ regens = 0 /\ posted = 0

IdleCalls == calls = <<>> /\ frames = <<>>

(***************************************************************************)
(* Calls of _analyze_image under way at the same time (parallel uploads).  *)
(* pixels, non_white_pixels and kmeans are local variables of              *)
(* _detect_dominant_color: each call has them in a frame of its own.       *)
(***************************************************************************)
MaxCalls == 2

Procs == 1..MaxCalls

\* mutant: the buffers are kept on the WardrobeManager, one set for all calls
frame_shared(i) == 1

\* the frame holding the local variables of the i-th call
frame(i) == i

NoFrame == [pixels |-> NoPixels, non_white_pixels |-> NoPixels,
            kmeans |-> [ok |-> FALSE]]

CallFiles == { [name |-> ShirtPng, content |-> "navy"],
               [name |-> NavyJeans01Jpg, content |-> "mixed"],
               [name |-> ShirtPng, content |-> "corrupt"],
               [name |-> NavyJeans01Jpg, content |-> "white"] }

\* whether a call other than the i-th is between its first and last step
OthersUnderWay(i) ==
    \E j \in Procs \ {i} : calls[j].pc \notin {"category", "done"}

\* 'all', the value of a filter that selects everything
All == <<"a", "l", "l">>

\* item: null of an outfit slot
Null == [id |-> 0, category |-> "null"]

\* the message the chat page starts with
Greeting == [role |-> "assistant", content |-> <<"Hello!">>, ask |-> 0]

\* try-on page: the categories of the outfit slots
SlotCategories == {"top", "bottom", "shoes"}

IdlePipeline ==
    /\ pc = "idle" /\ filename = <<>> /\ category = None
    /\ rgb = NoRgb /\ hsv = None /\ colorName = None
    /\ image = NoImage /\ pixels = NoPixels /\ non_white_pixels = NoPixels
    /\ kmeans = None /\ results = <<>>

(***************************************************************************)
(* The pages of the frontend and the proxy, before anything happens.       *)
(***************************************************************************)
IdleDrops == drops = <<>>

\* the state of the wardrobe page when it is mounted
IdleWardrobe ==
    /\ wardrobeItems = <<>> /\ filteredItems = <<>>
    /\ selectedCategory = All /\ selectedColor = All
    /\ searchTerm = <<>> /\ effectPending = FALSE

IdleProxy == handled = <<>> /\ aiRequests = <<>>

\* the state of the chat page when it is mounted
IdleChat ==
    /\ messages = <<Greeting>> /\ input = <<>> /\ isLoading = FALSE
    /\ rendered = [input |-> <<>>, isLoading |-> FALSE]
    /\ asks = <<>>

\* the state of the try-on page when it is mounted
IdleTryOn ==
    /\ outfit = [c \in SlotCategories |-> Null]
    /\ currentIndices = [c \in SlotCategories |-> 0]

IdlePages == IdleDrops /\ IdleWardrobe /\ IdleProxy /\ IdleChat /\ IdleTryOn

(***************************************************************************)
(* The category classifier on one filename.                                *)
(***************************************************************************)
InitCategory ==
    /\ IdleStore /\ IdleCalls /\ IdlePages /\ detected = <<>>
    /\ pc = "detect_category"
    /\ filename \in Filenames
    /\ category = None
    /\ rgb = NoRgb /\ hsv = None /\ colorName = None
    /\ image = NoImage /\ pixels = NoPixels /\ non_white_pixels = NoPixels
    /\ kmeans = None /\ results = <<>> /\ mt42 = 0 /\ np_random = 0

DetectCategory ==
    /\ UNCHANGED <<storeVars, callVars, tableVars, pageVars>>
    /\ pc = "detect_category"
    /\ category' = detect_category(filename)
    /\ pc' = "done"
    /\ UNCHANGED <<filename, rgb, hsv, colorName, image, pixels,
                   non_white_pixels, kmeans, results, mt42, np_random>>

NextCategory == DetectCategory

SpecCategory == InitCategory /\ [][NextCategory]_vars

(***************************************************************************)
(* The colour classification on one RGB triple or one (h, s, v) triple.    *)
(***************************************************************************)
InitColor ==
    /\ IdleStore /\ IdleCalls /\ IdlePages /\ detected = <<>>
    /\ \/ pc = "rgb_to_color_name" /\ rgb \in RgbInputs /\ hsv = None
       \/ pc = "classify_color" /\ rgb = NoRgb /\ hsv \in HsvInputs
    /\ filename = <<>> /\ category = None /\ colorName = None
    /\ image = NoImage /\ pixels = NoPixels /\ non_white_pixels = NoPixels
    /\ kmeans = None /\ results = <<>> /\ mt42 = 0 /\ np_random = 0

RgbToColorName ==
    /\ UNCHANGED <<storeVars, callVars, tableVars, pageVars>>
    /\ pc = "rgb_to_color_name"
    /\ hsv' = rgb_to_hsv(rgb, 1)
    /\ colorName' = rgb_to_color_name(rgb, 1)
    /\ pc' = "done"
    /\ UNCHANGED <<filename, category, rgb, image, pixels, non_white_pixels,
                   kmeans, results, mt42, np_random>>

ClassifyColor ==
    /\ UNCHANGED <<storeVars, callVars, tableVars, pageVars>>
    /\ pc = "classify_color"
    /\ colorName' = classify_color(hsv.h, hsv.s, hsv.v)
    /\ pc' = "done"
    /\ UNCHANGED <<filename, category, rgb, hsv, image, pixels,
                   non_white_pixels, kmeans, results, mt42, np_random>>

NextColor == RgbToColorName \/ ClassifyColor

SpecColor == InitColor /\ [][NextColor]_vars

(***************************************************************************)
(* _detect_dominant_color on one image, called up to MaxRuns times.        *)
(***************************************************************************)
InitAnalyze ==
    /\ IdleStore /\ IdleCalls /\ IdlePages /\ detected = <<>>
    /\ pc = "open"
    /\ image \in Images
    /\ mt42 \in 0..(RngPeriod - 1)
    /\ np_random = 0
    /\ pixels = NoPixels /\ non_white_pixels = NoPixels
    /\ kmeans = None /\ results = <<>>
    /\ filename = <<>> /\ category = None
    /\ rgb = NoRgb /\ hsv = None /\ colorName = None

\* Image.open, convert('RGB'), resize((300, 300)), reshape(-1, 3)
Preprocess ==
    /\ UNCHANGED <<storeVars, callVars, tableVars, pageVars>>
    /\ pc = "open"
    /\ pixels' = image
    /\ pc' = "background_removal"
    /\ UNCHANGED <<filename, category, rgb, hsv, colorName, image,
                   non_white_pixels, kmeans, results, mt42, np_random>>

BackgroundRemoval ==
    /\ UNCHANGED <<storeVars, callVars, tableVars, pageVars>>
    /\ pc = "background_removal"
    /\ non_white_pixels' = background_removal(pixels)
    /\ pc' = "fit"
    /\ UNCHANGED <<filename, category, rgb, hsv, colorName, image, pixels,
                   kmeans, results, mt42, np_random>>

\* KMeans(...).fit(non_white_pixels); a ValueError leaves the function
KMeansFit ==
    /\ UNCHANGED <<storeVars, callVars, tableVars, pageVars>>
    /\ pc = "fit"
    /\ LET rng == check_random_state(mt42, np_random)
           fit == kmeans_fit(non_white_pixels, rng.state)
       IN  /\ kmeans' = fit
           /\ np_random' = IF rng.is_global
                           THEN (np_random + n_init) % RngPeriod
                           ELSE np_random
           /\ IF fit.ok
              THEN pc' = "select" /\ UNCHANGED results
              ELSE pc' = "done" /\ results' = Append(results, "ValueError")
    /\ UNCHANGED <<filename, category, rgb, hsv, colorName, image, pixels,
                   non_white_pixels, mt42>>

\* the centre of the cluster of most labels, and its name
SelectDominant ==
    /\ UNCHANGED <<storeVars, callVars, tableVars, pageVars>>
    /\ pc = "select"
    /\ LET most_prominent_color ==
               kmeans.cluster_centers[argmax(kmeans.label_counts)]
       IN  /\ rgb' = most_prominent_color
           /\ colorName' = rgb_to_color_name(most_prominent_color, CentroidScale)
           /\ results' = Append(results, colorName')
    /\ pc' = "done"
    /\ UNCHANGED <<filename, category, hsv, image, pixels, non_white_pixels,
                   kmeans, mt42, np_random>>

\* a further call on the same image file
AnalyzeAgain ==
    /\ UNCHANGED <<storeVars, callVars, tableVars, pageVars>>
    /\ pc = "done"
    /\ Len(results) < MaxRuns
    /\ pc' = "open"
    /\ pixels' = NoPixels /\ non_white_pixels' = NoPixels
    /\ kmeans' = None /\ rgb' = NoRgb /\ colorName' = None
    /\ UNCHANGED <<filename, category, hsv, image, results, mt42, np_random>>

NextAnalyze ==
    \/ Preprocess
    \/ BackgroundRemoval
    \/ KMeansFit
    \/ SelectDominant
    \/ AnalyzeAgain

SpecAnalyze == InitAnalyze /\ [][NextAnalyze]_vars

(***************************************************************************)
(* Uploads and re-analyses on one store (SpecStore).                       *)
(***************************************************************************)
\* two of the states seeding with 42 may yield; they give the two
\* orders of the centres where the order decides between equal clusters
Seeds42 == {0, 1}

InitStore ==
    /\ IdlePipeline /\ IdleStore /\ IdleCalls
    /\ mt42 \in Seeds42
    /\ IdlePages
    /\ detected = Detected(mt42)
    /\ np_random = 0

Files == [name : StoreFilenames, content : Contents]

FileLists == UNION { [1..n -> Files] : n \in 1..MaxUploads }

Post(file, via, override) ==
    [stage |-> IF via = "page" THEN "proxy" ELSE "service", via |-> via,
     name |-> file.name, content |-> file.content, override |-> override,
     response |-> NoResponse]

\* upload page, onDrop: up to the first axios.post; one drop at a time
\* here, drops that overlap are in SpecPage
OnDrop ==
    /\ request.stage = "idle" /\ ~isUploading
    /\ \E files \in FileLists :
        /\ posted + Len(files) <= MaxUploads
        /\ acceptedFiles' = files
        /\ request' = Post(files[1], "page", None)
    /\ isUploading' = TRUE
    /\ error' = NoError
    /\ posted' = posted + 1
    /\ UNCHANGED <<disk, metadata, created, uuids, outcomes, uploadedItems, regens>>
    /\ UNCHANGED <<pipelineVars, callVars, tableVars, pageVars>>

\* a client of the AI service posts a file, with a category or without
ClientUpload ==
    /\ request.stage = "idle"
    /\ posted < MaxUploads
    /\ \E file \in Files, override \in Overrides \cup {None} :
        request' = Post(file, "client", override)
    /\ posted' = posted + 1
    /\ UNCHANGED <<disk, metadata, created, uuids, outcomes, acceptedFiles,
                   isUploading, uploadedItems, error, regens>>
    /\ UNCHANGED <<pipelineVars, callVars, tableVars, pageVars>>

\* proxy, POST /api/upload: the file is sent on to the AI service
ProxyUpload ==
    /\ request.stage = "proxy"
    /\ request' = [request EXCEPT !.stage = "service"]
    /\ UNCHANGED <<disk, metadata, created, uuids, outcomes, acceptedFiles,
                   isUploading, uploadedItems, error, regens, posted>>
    /\ UNCHANGED <<pipelineVars, callVars, tableVars, pageVars>>

\* AI service, POST /upload: the file is stored and analysed, the record
\* is added to the metadata and returned; an exception of the analysis is
\* answered with an error and adds no record
ServiceUpload ==
    /\ request.stage = "service"
    /\ LET name == request.name
           r == analyze_image(name, request.content, uuid4(uuids), np_random)
           item == IF request.override = None THEN r.item
                   ELSE with_category(r.item,
                            category_override(r.item.category, request.override))
           overwritten(k) == /\ metadata[k].filename = name
                             /\ created[k].content # request.content
       IN  /\ disk' = [disk EXCEPT ![name] = request.content]
           /\ np_random' = r.np_random
           /\ IF r.ok
              THEN /\ metadata' = Append(metadata, item)
                   /\ created' =
                        Append([k \in 1..Len(created) |->
                                   IF overwritten(k)
                                   THEN [created[k] EXCEPT !.changed = TRUE]
                                   ELSE created[k]],
                               [item |-> item, content |-> request.content,
                                changed |-> FALSE])
                   /\ uuids' = uuids + 1
                   /\ outcomes' = Append(outcomes, [ok |-> TRUE, id |-> item.id,
                                                    content |-> request.content])
                   /\ request' = [request EXCEPT
                         !.stage = "answered",
                         !.response = [status |-> 200,
                                       data |-> [message |-> "uploaded",
                                                 item |-> item,
                                                 filename |-> name]]]
              ELSE /\ metadata' = metadata
                   /\ created' = [k \in 1..Len(created) |->
                                     IF overwritten(k)
                                     THEN [created[k] EXCEPT !.changed = TRUE]
                                     ELSE created[k]]
                   /\ uuids' = uuids
                   /\ outcomes' = Append(outcomes, [ok |-> FALSE, error |-> r.error,
                                                    content |-> request.content])
                   /\ request' = [request EXCEPT
                         !.stage = "answered",
                         !.response = [status |-> 500, detail |-> r.error]]
    /\ UNCHANGED <<acceptedFiles, isUploading, uploadedItems, error, regens, posted>>
    /\ UNCHANGED <<pc, filename, category, rgb, hsv, colorName, image, pixels,
                   non_white_pixels, kmeans, results, mt42>>
    /\ UNCHANGED <<callVars, tableVars, pageVars>>

\* the client of the AI service gets the answer
ClientAnswered ==
    /\ request.stage = "answered" /\ request.via = "client"
    /\ request' = NoRequest
    /\ UNCHANGED <<disk, metadata, created, uuids, outcomes, acceptedFiles,
                   isUploading, uploadedItems, error, regens, posted>>
    /\ UNCHANGED <<pipelineVars, callVars, tableVars, pageVars>>

\* proxy, POST /api/upload: the answer of the AI service is wrapped, an
\* error of the request (a status outside 2xx) is answered with status 500
ProxyAnswer ==
    /\ request.stage = "answered" /\ request.via = "page"
    /\ request' = [request EXCEPT
          !.stage = "settled",
          !.response =
              IF request.response.status = 200
              THEN [status |-> 200,
                    data |-> [success |-> TRUE, data |-> request.response.data,
                              message |-> "Image uploaded and processed successfully"]]
              ELSE [status |-> 500,
                    data |-> [error |-> "Failed to process image",
                              details |-> request.response.detail]]]
    /\ UNCHANGED <<disk, metadata, created, uuids, outcomes, acceptedFiles,
                   isUploading, uploadedItems, error, regens, posted>>
    /\ UNCHANGED <<pipelineVars, callVars, tableVars, pageVars>>

\* upload page, onDrop: after the await; the entry is appended or the
\* error set, then the next file is posted or isUploading is reset
OnDropSettled ==
    /\ request.stage = "settled"
    /\ LET data == request.response.data
           newItem == [id |-> Get(data.data, "item_id"),
                       category |-> Get(data.data, "category"),
                       color |-> Get(data.data, "color"),
                       filename |-> request.name]
       IN  IF request.response.status = 200
           THEN /\ uploadedItems' = IF Get(data, "success") = TRUE
                                    THEN Append(uploadedItems, newItem)
                                    ELSE uploadedItems
                /\ error' = error
           ELSE /\ uploadedItems' = uploadedItems
                /\ error' = <<"Failed to upload", request.name, data.error>>
    /\ acceptedFiles' = Tail(acceptedFiles)
    /\ IF Len(acceptedFiles) > 1
       THEN /\ request' = Post(acceptedFiles[2], "page", None)
            /\ posted' = posted + 1
            /\ isUploading' = isUploading
       ELSE /\ request' = NoRequest
            /\ posted' = posted
            /\ isUploading' = FALSE
    /\ UNCHANGED <<disk, metadata, created, uuids, outcomes, regens>>
    /\ UNCHANGED <<pipelineVars, callVars, tableVars, pageVars>>

\* AI service, POST /regenerate-metadata: every stored record is analysed
\* again from its file
RegenerateMetadata ==
    /\ regens < MaxRegens
    /\ Len(metadata) > 0
    /\ LET r == regenerate_from(metadata, 1, disk, uuids, np_random)
       IN  /\ metadata' = r.metadata
           /\ uuids' = r.uuids
           /\ np_random' = r.np_random
    /\ regens' = regens + 1
    /\ UNCHANGED <<disk, created, request, outcomes, acceptedFiles, isUploading,
                   uploadedItems, error, posted>>
    /\ UNCHANGED <<pc, filename, category, rgb, hsv, colorName, image, pixels,
                   non_white_pixels, kmeans, results, mt42>>
    /\ UNCHANGED <<callVars, tableVars, pageVars>>

NextStore ==
    \/ OnDrop
    \/ ClientUpload
    \/ ProxyUpload
    \/ ServiceUpload
    \/ ClientAnswered
    \/ ProxyAnswer
    \/ OnDropSettled
    \/ RegenerateMetadata

SpecStore == InitStore /\ [][NextStore]_vars

(***************************************************************************)
(* Parallel calls of _analyze_image on one WardrobeManager (SpecCalls).    *)
(***************************************************************************)
InitCalls ==
    /\ IdlePipeline /\ IdleStore
    /\ mt42 \in Seeds42
    /\ IdlePages
    /\ detected = Detected(mt42)
    /\ np_random = 0
    /\ calls \in [Procs -> { [pc |-> "category", name |-> f.name,
                             content |-> f.content, category |-> None,
                             color |-> None, error |-> None,
                             overlapped |-> FALSE] : f \in CallFiles }]
    /\ frames = [i \in Procs |-> NoFrame]

\* the i-th call: one step of it moves it to position to, with the fields
\* of change set
Step(i, to, change) ==
    calls' = [calls EXCEPT ![i] =
                 [f \in DOMAIN calls[i] |->
                     IF f = "pc" THEN to
                     ELSE IF f = "overlapped"
                     THEN calls[i].overlapped \/ OthersUnderWay(i)
                     ELSE IF f \in DOMAIN change THEN change[f]
                     ELSE calls[i][f]]]

\* category = self._detect_category_from_filename(file_path.name)
CallCategory(i) ==
    /\ calls[i].pc = "category"
    /\ Step(i, "open", [category |-> detect_category(calls[i].name)])
    /\ UNCHANGED <<frames, pipelineVars, storeVars, tableVars, pageVars>>

\* Image.open(file_path), convert, resize, reshape
CallOpen(i) ==
    /\ calls[i].pc = "open"
    /\ IF calls[i].content \in Decodable
       THEN /\ frames' = [frames EXCEPT ![frame(i)].pixels =
                             ArrayFrom(Image_open(calls[i].content), 1)]
            /\ Step(i, "background_removal", <<>>)
       ELSE /\ frames' = frames
            /\ Step(i, "done", [error |-> "DecodeError"])
    /\ UNCHANGED <<pipelineVars, storeVars, tableVars, pageVars>>

CallBackgroundRemoval(i) ==
    /\ calls[i].pc = "background_removal"
    /\ frames' = [frames EXCEPT ![frame(i)].non_white_pixels =
                     ArrayFrom(background_removal(frames[frame(i)].pixels), 1)]
    /\ Step(i, "fit", <<>>)
    /\ UNCHANGED <<pipelineVars, storeVars, tableVars, pageVars>>

CallFit(i) ==
    /\ calls[i].pc = "fit"
    /\ \E rng \in {check_random_state(mt42, np_random)} :
       \E fit \in {kmeans_fit(frames[frame(i)].non_white_pixels, rng.state)} :
           /\ frames' = [frames EXCEPT ![frame(i)].kmeans = fit]
           /\ np_random' = IF rng.is_global
                           THEN (np_random + n_init) % RngPeriod
                           ELSE np_random
           /\ IF fit.ok
              THEN Step(i, "select", <<>>)
              ELSE Step(i, "done", [error |-> "ValueError"])
    /\ UNCHANGED <<pc, filename, category, rgb, hsv, colorName, image, pixels,
                   non_white_pixels, kmeans, results, mt42>>
    /\ UNCHANGED <<storeVars, tableVars, pageVars>>

CallSelect(i) ==
    /\ calls[i].pc = "select"
    /\ LET fit == frames[frame(i)].kmeans
           most_prominent_color == fit.cluster_centers[argmax(fit.label_counts)]
       IN  Step(i, "done",
                [color |-> rgb_to_color_name(most_prominent_color, CentroidScale)])
    /\ UNCHANGED <<frames, pipelineVars, storeVars, tableVars, pageVars>>

NextCalls ==
    \E i \in Procs :
        \/ CallCategory(i)
        \/ CallOpen(i)
        \/ CallBackgroundRemoval(i)
        \/ CallFit(i)
        \/ CallSelect(i)

SpecCalls == InitCalls /\ [][NextCalls]_vars

(***************************************************************************)
(* The upload page with calls of onDrop that overlap (SpecPage).  The      *)
(* dropzone stays enabled while isUploading is true, so a drop can start   *)
(* while the files of an earlier one are still being uploaded.             *)
(***************************************************************************)
MaxDrops == 2

MaxFiles == 2

DropIds == 1..MaxDrops

\* the lists of accepted files of one drop, the files of one drop having
\* different names; a drop of rejected files only calls onDrop with the
\* empty list
DropLists ==
    { f \in UNION { [1..n -> StoreFilenames] : n \in 0..MaxFiles } :
         \A i, j \in 1..Len(f) : f[i] = f[j] => i = j }

\* what the await of axios.post('/api/upload') ends with: the answer of
\* the proxy with success, an answer without it, or an exception
PageResponses ==
    { [status |-> 200,
       data |-> [success |-> TRUE, message |-> "uploaded",
                 data |-> [message |-> "uploaded", item |-> "item",
                           filename |-> "filename"]]],
      [status |-> 200, data |-> [message |-> "no success"]],
      [status |-> 500, data |-> [error |-> "Failed to process image"]] }

NoDrop == [pc |-> "idle", acceptedFiles |-> <<>>, i |-> 0, sent |-> <<>>,
           settled |-> <<>>]

\* if (obj.field) of JavaScript, for a field that is a Boolean or is missing
Truthy(obj, field) == field \in DOMAIN obj /\ obj[field]

\* mutant: the entry is appended for every answer, with success or without
uploaded_after_any(prev, response, name) ==
    IF response.status = 200
    THEN Append(prev, [id |-> Get(response.data, "item_id"),
                       category |-> Get(response.data, "category"),
                       color |-> Get(response.data, "color"),
                       filename |-> name])
    ELSE prev

\* uploadedItems after the answer for the file name: if
\* (response.data.success) setUploadedItems(prev => [...prev, newItem])
uploaded_after(prev, response, name) ==
    IF response.status = 200 /\ Truthy(response.data, "success")
    THEN Append(prev, [id |-> Get(response.data.data, "item_id"),
                       category |-> Get(response.data.data, "category"),
                       color |-> Get(response.data.data, "color"),
                       filename |-> name])
    ELSE prev

InitPage ==
    /\ IdlePipeline /\ IdleStore /\ IdleCalls /\ detected = <<>>
    /\ mt42 = 0 /\ np_random = 0
    /\ IdleWardrobe /\ IdleProxy /\ IdleChat /\ IdleTryOn
    /\ drops = [d \in DropIds |-> NoDrop]

\* onDrop up to its first await: setIsUploading(true), setError(null) and
\* the request for the first file; with no file, setIsUploading(false)
PageDrop(d) ==
    /\ drops[d].pc = "idle"
    /\ \E files \in DropLists :
          drops' = [drops EXCEPT ![d] =
                       IF files = <<>>
                       THEN [NoDrop EXCEPT !.pc = "done"]
                       ELSE [NoDrop EXCEPT !.pc = "await",
                                           !.acceptedFiles = files,
                                           !.i = 1,
                                           !.sent = <<files[1]>>]]
    /\ isUploading' = (drops'[d].pc = "await")
    /\ error' = NoError
    /\ UNCHANGED <<disk, metadata, created, uuids, request, outcomes,
                   acceptedFiles, uploadedItems, regens, posted>>
    /\ UNCHANGED <<pipelineVars, callVars, tableVars, wardrobeVars, proxyVars,
                   chatVars, tryOnVars>>

\* onDrop after an await: the entry is appended or the error set, then the
\* request for the next file is made or isUploading is reset
PageSettled(d) ==
    /\ drops[d].pc = "await"
    /\ \E response \in PageResponses :
        LET this == drops[d]
            name == this.acceptedFiles[this.i]
            more == this.i < Len(this.acceptedFiles)
        IN  /\ uploadedItems' = uploaded_after(uploadedItems, response, name)
            /\ error' = IF response.status = 200 THEN error
                        ELSE <<"Failed to upload", name, response.data.error>>
            /\ drops' = [drops EXCEPT ![d] =
                   [pc |-> IF more THEN "await" ELSE "done",
                    acceptedFiles |-> this.acceptedFiles,
                    i |-> IF more THEN this.i + 1 ELSE 0,
                    sent |-> IF more
                             THEN Append(this.sent, this.acceptedFiles[this.i + 1])
                             ELSE this.sent,
                    settled |-> Append(this.settled, response)]]
            /\ isUploading' = IF more THEN isUploading ELSE FALSE
    /\ UNCHANGED <<disk, metadata, created, uuids, request, outcomes,
                   acceptedFiles, regens, posted>>
    /\ UNCHANGED <<pipelineVars, callVars, tableVars, wardrobeVars, proxyVars,
                   chatVars, tryOnVars>>

NextPage ==
    \E d \in DropIds :
        \/ PageDrop(d)
        \/ PageSettled(d)

SpecPage == InitPage /\ [][NextPage]_vars

(***************************************************************************)
(* The wardrobe page: the filters and the search (SpecWardrobe).           *)
(***************************************************************************)
MaxItems == 3

\* String.prototype.toLowerCase
toLowerCase(str) == Lower(str)

\* String.prototype.includes
includes(str, pat) == Contains(str, pat)

\* the records GET /api/wardrobe may give
ItemPool ==
    { [id |-> 1, filename |-> ShirtPng, category |-> Chars("shirt"),
       color |-> Chars("navy")],
      [id |-> 2, filename |-> NavyJeans01Jpg, category |-> Chars("jeans"),
       color |-> Chars("white")],
      [id |-> 3, filename |-> Upper(ShirtPng), category |-> Chars("shirt"),
       color |-> Chars("white")] }

\* lists of different records
ItemLists ==
    { l \in UNION { [1..n -> ItemPool] : n \in 0..MaxItems } :
        \A i, j \in 1..Len(l) : i # j => l[i] # l[j] }

SearchTerms == { <<>>, P_shirt, Upper(P_shirt), Chars("navy"),
                 <<"N", "a", "V", "y">>, <<"z">> }

\* the options of a select: 'all' and the values that occur in the items
CategoryOptions == {All} \cup { wardrobeItems[i].category : i \in 1..Len(wardrobeItems) }

ColorOptions == {All} \cup { wardrobeItems[i].color : i \in 1..Len(wardrobeItems) }

\* mutant: the search term is compared as it was typed
filterItems_as_typed(items, cat, col, term) ==
    LET ByCategory(item) == item.category = cat
        ByColor(item) == item.color = col
        BySearch(item) ==
            \/ includes(toLowerCase(item.filename), term)
            \/ includes(toLowerCase(item.category), term)
            \/ includes(toLowerCase(item.color), term)
        f1 == IF cat # All THEN SelectSeq(items, ByCategory) ELSE items
        f2 == IF col # All THEN SelectSeq(f1, ByColor) ELSE f1
    IN  IF term # <<>> THEN SelectSeq(f2, BySearch) ELSE f2

\* filterItems: the value it gives to setFilteredItems
filterItems(items, cat, col, term) ==
    LET ByCategory(item) == item.category = cat
        ByColor(item) == item.color = col
        BySearch(item) ==
            \/ includes(toLowerCase(item.filename), toLowerCase(term))
            \/ includes(toLowerCase(item.category), toLowerCase(term))
            \/ includes(toLowerCase(item.color), toLowerCase(term))
        f1 == IF cat # All THEN SelectSeq(items, ByCategory) ELSE items
        f2 == IF col # All THEN SelectSeq(f1, ByColor) ELSE f1
    IN  IF term # <<>> THEN SelectSeq(f2, BySearch) ELSE f2

\* the page is mounted: fetchWardrobe is under way, the effects are to run
InitWardrobe ==
    /\ IdleStore /\ IdleCalls /\ detected = <<>>
    /\ filename = <<>> /\ category = None
    /\ rgb = NoRgb /\ hsv = None /\ colorName = None
    /\ image = NoImage /\ pixels = NoPixels /\ non_white_pixels = NoPixels
    /\ kmeans = None /\ results = <<>>
    /\ mt42 = 0 /\ np_random = 0
    /\ IdleDrops /\ IdleProxy /\ IdleChat /\ IdleTryOn
    /\ pc = "mount"
    /\ wardrobeItems = <<>> /\ filteredItems = <<>>
    /\ selectedCategory = All /\ selectedColor = All /\ searchTerm = <<>>
    /\ effectPending = TRUE

\* what a handler of the wardrobe page leaves alone
WardrobeFrame ==
    /\ UNCHANGED <<filename, category, rgb, hsv, colorName, image, pixels,
                   non_white_pixels, kmeans, results, mt42, np_random>>
    /\ UNCHANGED <<storeVars, callVars, tableVars, dropVars, proxyVars,
                   chatVars, tryOnVars>>

\* useEffect(() => { filterItems(); }, [wardrobeItems, selectedCategory,
\* selectedColor, searchTerm])
FilterEffect ==
    /\ effectPending
    /\ filteredItems' = filterItems(wardrobeItems, selectedCategory,
                                    selectedColor, searchTerm)
    /\ effectPending' = FALSE
    /\ UNCHANGED <<pc, wardrobeItems, selectedCategory, selectedColor,
                   searchTerm>>
    /\ WardrobeFrame

\* fetchWardrobe, after the await: the items of the answer are kept; an
\* answer without success or an exception leaves the list empty
FetchWardrobe ==
    /\ pc = "mount" /\ ~effectPending
    /\ \E items \in ItemLists, success \in BOOLEAN :
          /\ wardrobeItems' = IF success THEN items ELSE wardrobeItems
          /\ effectPending' = (wardrobeItems' # wardrobeItems)
    /\ pc' = "fetchWardrobe"
    /\ UNCHANGED <<filteredItems, selectedCategory, selectedColor, searchTerm>>
    /\ WardrobeFrame

\* onChange of the category select
SetSelectedCategory ==
    /\ pc # "mount" /\ ~effectPending
    /\ \E cat \in CategoryOptions :
          /\ selectedCategory' = cat
          /\ effectPending' = (cat # selectedCategory)
    /\ pc' = "setSelectedCategory"
    /\ UNCHANGED <<wardrobeItems, filteredItems, selectedColor, searchTerm>>
    /\ WardrobeFrame

\* onChange of the colour select
SetSelectedColor ==
    /\ pc # "mount" /\ ~effectPending
    /\ \E col \in ColorOptions :
          /\ selectedColor' = col
          /\ effectPending' = (col # selectedColor)
    /\ pc' = "setSelectedColor"
    /\ UNCHANGED <<wardrobeItems, filteredItems, selectedCategory, searchTerm>>
    /\ WardrobeFrame

\* onChange of the search input
SetSearchTerm ==
    /\ pc # "mount" /\ ~effectPending
    /\ \E term \in SearchTerms :
          /\ searchTerm' = term
          /\ effectPending' = (term # searchTerm)
    /\ pc' = "setSearchTerm"
    /\ UNCHANGED <<wardrobeItems, filteredItems, selectedCategory, selectedColor>>
    /\ WardrobeFrame

\* onClick of Clear Filters
ClearFilters ==
    /\ pc # "mount" /\ ~effectPending
    /\ selectedCategory' = All /\ selectedColor' = All /\ searchTerm' = <<>>
    /\ effectPending' = (<<selectedCategory, selectedColor, searchTerm>>
                           # <<All, All, <<>>>>)
    /\ pc' = "clearFilters"
    /\ UNCHANGED <<wardrobeItems, filteredItems>>
    /\ WardrobeFrame

NextWardrobe ==
    \/ FilterEffect
    \/ FetchWardrobe
    \/ SetSelectedCategory
    \/ SetSelectedColor
    \/ SetSearchTerm
    \/ ClearFilters

SpecWardrobe == InitWardrobe /\ [][NextWardrobe]_vars

(***************************************************************************)
(* The proxy in front of the AI service (SpecProxy): the serverless        *)
(* handlers of /api/upload and /api/ask and the Express route of           *)
(* /api/upload.  A request is handled in one step, the answer of the AI    *)
(* service included when the handler asks for it.                          *)
(***************************************************************************)
MaxRequests == 2

Methods == {"OPTIONS", "POST", "GET", "PUT", "DELETE"}

\* what multer finds in the request: an image in the field 'image', no
\* file, or a file over the size limit (an error of multer)
UploadParts == {"image", "none", "too_large"}

\* req.body: an object with a query, with an empty one, without one, or
\* the JSON value null
AskBodies == { [json |-> "object", query |-> <<"h", "i">>],
               [json |-> "object", query |-> <<>>],
               [json |-> "object"],
               [json |-> "null"] }

\* what the request to the AI service ends with
AiOutcomes == {"answer", "exception"}

\* !query
NoQuery(body) == "query" \notin DOMAIN body \/ body.query = <<>>

\* the part of both handlers after the checks: the request to the AI
\* service is sent, its answer wrapped, an exception answered with 500
forward(path, ai) ==
    IF ai = "answer"
    THEN [status |-> 200, success |-> TRUE, sent |-> <<path>>]
    ELSE [status |-> 500, success |-> FALSE, sent |-> <<path>>]

refuse(status) == [status |-> status, success |-> FALSE, sent |-> <<>>]

\* frontend/pages/api/upload.js, handler
upload_handler(method, part, ai) ==
    IF method = "OPTIONS" THEN refuse(200)
    ELSE IF method # "POST" THEN refuse(405)
    ELSE IF part = "too_large" THEN refuse(500)
    ELSE IF part = "none" THEN refuse(400)
    ELSE forward("/upload", ai)

\* the handler of /api/ask; const { query } = req.body throws a TypeError
\* for a body that is null, inside the try
ask_handler(method, body, ai) ==
    IF method = "OPTIONS" THEN refuse(200)
    ELSE IF method # "POST" THEN refuse(405)
    ELSE IF body.json = "null" THEN refuse(500)
    ELSE IF NoQuery(body) THEN refuse(400)
    ELSE forward("/chat", ai)

\* backend/index.js, app.post('/api/upload', upload.single('image'), ...);
\* an error of multer goes to the error handling middleware
post_api_upload(part, ai) ==
    IF part = "too_large" THEN refuse(500)
    ELSE IF part = "none" THEN refuse(400)
    ELSE forward("/upload", ai)

InitProxy ==
    /\ IdlePipeline /\ IdleStore /\ IdleCalls /\ detected = <<>>
    /\ mt42 = 0 /\ np_random = 0
    /\ IdleDrops /\ IdleWardrobe /\ IdleChat /\ IdleTryOn
    /\ handled = <<>> /\ aiRequests = <<>>

\* a request has been answered with res
Handled(name, method, given, res) ==
    /\ Len(handled) < MaxRequests
    /\ handled' = Append(handled, [handler |-> name, method |-> method,
                                   input |-> given, status |-> res.status,
                                   success |-> res.success,
                                   sent |-> res.sent # <<>>])
    /\ aiRequests' = aiRequests \o res.sent
    /\ UNCHANGED <<pipelineVars, storeVars, callVars, tableVars, dropVars,
                   wardrobeVars, chatVars, tryOnVars>>

UploadHandler ==
    \E method \in Methods, part \in UploadParts, ai \in AiOutcomes :
        Handled("upload", method, [part |-> part],
                upload_handler(method, part, ai))

AskHandler ==
    \E method \in Methods, body \in AskBodies, ai \in AiOutcomes :
        Handled("ask", method, body, ask_handler(method, body, ai))

PostApiUpload ==
    \E part \in UploadParts, ai \in AiOutcomes :
        Handled("express upload", "POST", [part |-> part],
                post_api_upload(part, ai))

NextProxy ==
    \/ UploadHandler
    \/ AskHandler
    \/ PostApiUpload

SpecProxy == InitProxy /\ [][NextProxy]_vars

(***************************************************************************)
(* The chat page (SpecChat).  handleSend is made anew at every render and  *)
(* reads input and isLoading of that render; the state the setters have    *)
(* set is seen by the handlers after the next render.                      *)
(***************************************************************************)
MaxAsks == 2

\* what the user may have typed, or picked among the suggested questions
InputTexts == { <<>>, <<" ">>, <<"h", "i">>, <<" ", "h", "i", " ">> }

\* response.data.data.response of an answer with success
Reply == <<"reply">>

\* the content of the message of the catch block
ErrorText == <<"Sorry, I encountered an error.">>

\* what the await of axios.post('/api/ask') ends with
AskOutcomes == {"reply", "no success", "exception"}

\* String.prototype.trim
RECURSIVE trim(_)
trim(str) ==
    IF str = <<>> THEN str
    ELSE IF Head(str) = " " THEN trim(Tail(str))
    ELSE IF str[Len(str)] = " " THEN trim(SubSeq(str, 1, Len(str) - 1))
    ELSE str

\* mutant: an answer without success adds no message
after_response_silent(prev, k, outcome) ==
    IF outcome = "no success" THEN prev
    ELSE Append(prev, [role |-> "assistant",
                       content |-> IF outcome = "reply" THEN Reply ELSE ErrorText,
                       ask |-> k])

\* messages after the await of the k-th request: the reply of the service
\* or, from the catch block, the error text
after_response(prev, k, outcome) ==
    Append(prev, [role |-> "assistant",
                  content |-> IF outcome = "reply" THEN Reply ELSE ErrorText,
                  ask |-> k])

InitChat ==
    /\ IdlePipeline /\ IdleStore /\ IdleCalls /\ detected = <<>>
    /\ mt42 = 0 /\ np_random = 0
    /\ IdleDrops /\ IdleWardrobe /\ IdleProxy /\ IdleTryOn
    /\ messages = <<Greeting>> /\ input = <<>> /\ isLoading = FALSE
    /\ rendered = [input |-> <<>>, isLoading |-> FALSE]
    /\ asks = <<>>

\* what a step of the chat page leaves alone
ChatFrame ==
    UNCHANGED <<pipelineVars, storeVars, callVars, tableVars, dropVars,
                wardrobeVars, proxyVars, tryOnVars>>

\* onChange of the input (disabled while the render has isLoading true)
SetInput ==
    /\ ~rendered.isLoading
    /\ \E text \in InputTexts : input' = text
    /\ input' # input
    /\ UNCHANGED <<messages, isLoading, rendered, asks>>
    /\ ChatFrame

\* the component renders again: the handlers see the state as it is now
Render ==
    /\ rendered # [input |-> input, isLoading |-> isLoading]
    /\ rendered' = [input |-> input, isLoading |-> isLoading]
    /\ UNCHANGED <<messages, input, isLoading, asks>>
    /\ ChatFrame

\* handleSend, by a click or by Enter, up to its await
HandleSend ==
    /\ ~(trim(rendered.input) = <<>> \/ rendered.isLoading)
    /\ Len(asks) < MaxAsks
    /\ messages' = Append(messages, [role |-> "user", content |-> rendered.input,
                                     ask |-> Len(asks) + 1])
    /\ input' = <<>>
    /\ isLoading' = TRUE
    /\ asks' = Append(asks, [pc |-> "await", query |-> rendered.input,
                             outcome |-> None])
    /\ UNCHANGED rendered
    /\ ChatFrame

\* handleSend after its await: try, catch and finally
Respond(k) ==
    /\ k <= Len(asks)
    /\ asks[k].pc = "await"
    /\ \E outcome \in AskOutcomes :
          /\ messages' = after_response(messages, k, outcome)
          /\ asks' = [asks EXCEPT ![k].pc = "done", ![k].outcome = outcome]
    /\ isLoading' = FALSE
    /\ UNCHANGED <<input, rendered>>
    /\ ChatFrame

NextChat ==
    \/ SetInput
    \/ Render
    \/ HandleSend
    \/ \E k \in 1..MaxAsks : Respond(k)

SpecChat == InitChat /\ [][NextChat]_vars

\* every request is settled in the end: by the answer of the proxy, which
\* gives up on the AI service after 30 seconds, or by an exception
SpecChatFair ==
    SpecChat /\ \A k \in 1..MaxAsks : WF_vars(Respond(k))

(***************************************************************************)
(* The try-on page: the outfit slots and the cycling (SpecTryOn).          *)
(***************************************************************************)
Directions == {"prev", "next"}

\* the records GET /api/wardrobe may give; one of a category with no slot
TryOnPool ==
    { [id |-> 1, category |-> "top"], [id |-> 2, category |-> "top"],
      [id |-> 3, category |-> "top"], [id |-> 4, category |-> "bottom"],
      [id |-> 5, category |-> "shirt"] }

TryOnLists ==
    { l \in UNION { [1..n -> TryOnPool] : n \in 0..MaxItems } :
        \A i, j \in 1..Len(l) : i # j => l[i] # l[j] }

\* getItemsByCategory
getItemsByCategory(cat) ==
    SelectSeq(wardrobeItems, LAMBDA item : item.category = cat)

\* mutant: prev stays at 0
newIndex_no_wrap(currentIndex, n, direction) ==
    IF direction = "next" THEN (currentIndex + 1) % n
    ELSE IF currentIndex = 0 THEN 0 ELSE currentIndex - 1

\* cycleItem: newIndex
newIndex(currentIndex, n, direction) ==
    IF direction = "next" THEN (currentIndex + 1) % n
    ELSE IF currentIndex = 0 THEN n - 1 ELSE currentIndex - 1

InitTryOn ==
    /\ IdleStore /\ IdleCalls /\ detected = <<>>
    /\ filename = <<>> /\ category = None
    /\ rgb = NoRgb /\ hsv = None /\ colorName = None
    /\ image = NoImage /\ pixels = NoPixels /\ non_white_pixels = NoPixels
    /\ kmeans = None /\ results = <<>>
    /\ mt42 = 0 /\ np_random = 0
    /\ IdleDrops /\ IdleWardrobe /\ IdleProxy /\ IdleChat
    /\ pc = "mount"
    /\ outfit = [c \in SlotCategories |-> Null]
    /\ currentIndices = [c \in SlotCategories |-> 0]

\* what a handler of the try-on page leaves alone
TryOnFrame ==
    /\ UNCHANGED <<filename, category, rgb, hsv, colorName, image, pixels,
                   non_white_pixels, kmeans, results, mt42, np_random>>
    /\ UNCHANGED <<filteredItems, selectedCategory, selectedColor, searchTerm,
                   effectPending>>
    /\ UNCHANGED <<storeVars, callVars, tableVars, dropVars, proxyVars,
                   chatVars>>

\* fetchWardrobe, after the await
TryOnFetch ==
    /\ pc = "mount"
    /\ \E items \in TryOnLists, success \in BOOLEAN :
          wardrobeItems' = IF success THEN items ELSE wardrobeItems
    /\ pc' = "fetchWardrobe"
    /\ UNCHANGED <<outfit, currentIndices>>
    /\ TryOnFrame

\* addToOutfit(item), for an item of the wardrobe
AddToOutfit ==
    /\ \E k \in 1..Len(wardrobeItems) :
          outfit' = [c \in SlotCategories |->
                        IF c = wardrobeItems[k].category THEN wardrobeItems[k]
                        ELSE outfit[c]]
    /\ pc' = "addToOutfit"
    /\ UNCHANGED <<wardrobeItems, currentIndices>>
    /\ TryOnFrame

\* removeFromOutfit(category)
RemoveFromOutfit ==
    /\ \E cat \in SlotCategories :
          outfit' = [c \in SlotCategories |-> IF c = cat THEN Null ELSE outfit[c]]
    /\ pc' = "removeFromOutfit"
    /\ UNCHANGED <<wardrobeItems, currentIndices>>
    /\ TryOnFrame

\* cycleItem(category, direction)
CycleItem(cat, direction) ==
    /\ LET categoryItems == getItemsByCategory(cat)
       IN  IF Len(categoryItems) = 0
           THEN UNCHANGED <<pc, outfit, currentIndices>>
           ELSE LET new == newIndex(currentIndices[cat], Len(categoryItems),
                                    direction)
                IN  /\ currentIndices' = [currentIndices EXCEPT ![cat] = new]
                    /\ outfit' = [c \in SlotCategories |->
                                     IF c = cat THEN categoryItems[new + 1]
                                     ELSE outfit[c]]
                    /\ pc' = "cycleItem"
    /\ UNCHANGED wardrobeItems
    /\ TryOnFrame

NextTryOn ==
    \/ TryOnFetch
    \/ AddToOutfit
    \/ RemoveFromOutfit
    \/ \E cat \in SlotCategories, direction \in Directions :
          CycleItem(cat, direction)

SpecTryOn == InitTryOn /\ [][NextTryOn]_vars

(***************************************************************************)
(* Properties of the category classifier (SpecCategory).                   *)
(***************************************************************************)
\* the rules in the order of precedence the specification gives
RuleOrder == << [cat |-> "tshirt",   pats |-> {P_tshirt, P_t_shirt}],
                [cat |-> "shirt",    pats |-> {P_shirt}],
                [cat |-> "jeans",    pats |-> {P_jean, P_denim}],
                [cat |-> "trousers", pats |-> {P_trouser, P_pant}],
                [cat |-> "shoes",    pats |-> {P_shoe}],
                [cat |-> "suit",     pats |-> {P_suit}] >>

\* the rules of which a pattern occurs in the lower-cased filename
Firing(fname) ==
    {i \in 1..Len(RuleOrder) : \E pat \in RuleOrder[i].pats : Contains(Lower(fname), pat)}

IsAscii(str) == \A i \in 1..Len(str) : str[i] # "long_s"

\* C1: detect_category is total: for every filename, the empty one and
\* those without any recognizable token included, it returns one value of
\* the seven categories, and a filename that matches no rule gives other.
C1_Total ==
    pc = "done" =>
        /\ category \in Categories
        /\ (Firing(filename) = {} => category = "other")

C1_Witness == pc = "done" /\ filename = <<>> /\ category = "other"

\* C2: the rules are applied in the order tshirt, shirt, jeans/denim,
\* trousers/pant, shoes, suit, other: the result is the category of the
\* first rule of which a pattern occurs in the filename.
C2_Precedence ==
    pc = "done" =>
        /\ Firing(filename) # {} =>
               \E i \in Firing(filename) :
                   /\ \A j \in Firing(filename) : i <= j
                   /\ category = RuleOrder[i].cat
        /\ (filename = BlueTshirtCasualPng => category = "tshirt")
        /\ (filename = DenimTrouserJpg => category = "jeans")

C2_Witness ==
    /\ pc = "done"
    /\ filename = DenimTrouserJpg
    /\ Cardinality(Firing(filename)) = 2
    /\ category = "jeans"

\* C3 as stated: the category of a filename is that of the filename
\* converted to lower case and that of the filename converted to upper case.
C3_CaseInsensitive ==
    pc = "done" =>
        /\ category = detect_category(Lower(filename))
        /\ category = detect_category(Upper(filename))

\* C3, amended: the category of a filename is that of the filename
\* converted to lower case, and for a filename of ASCII characters also
\* that of the filename converted to upper case.
C3_CaseInsensitiveAscii ==
    pc = "done" =>
        /\ category = detect_category(Lower(filename))
        /\ (IsAscii(filename) => category = detect_category(Upper(filename)))

C3_Witness ==
    /\ pc = "done"
    /\ filename = Upper(P_shirt) \o <<".","p","n","g">>
    /\ category = "shirt"

C5_Grayscale ==
    pc = "done" =>
        /\ Lt(hsv.s, 15, 100) =>
               colorName = IF 100 * hsv.v.n < 20 * hsv.v.d THEN "black"
                           ELSE IF 100 * hsv.v.n < 35 * hsv.v.d THEN "dark gray"
                           ELSE IF 100 * hsv.v.n < 65 * hsv.v.d THEN "gray"
                           ELSE IF 100 * hsv.v.n < 85 * hsv.v.d THEN "light gray"
                           ELSE "white"
        /\ (rgb = Black => colorName = "black")
        /\ (rgb = Gray => colorName = "gray")
        /\ (rgb = White => colorName = "white")

C5_Witness == pc = "done" /\ rgb = Gray /\ colorName = "gray"

\* C6: the red band goes round the 0/360 boundary: a saturated colour of
\* hue below 15 or above 345 degrees is named by the red spectrum, so hue 0
\* (RGB (255,0,0)) and hue 350 get names of the same family.
C6_RedWrap ==
    pc = "done" =>
        /\ (~Lt(hsv.s, 15, 100) /\ (Lt(hsv.h, 15, 1) \/ Gt(hsv.h, 345, 1))) =>
               /\ colorName = classify_red_spectrum(hsv.s, hsv.v)
               /\ colorName \in RedNames
        /\ (rgb \in {PureRed, Red350} => colorName \in RedNames)

C6_Witness ==
    /\ pc = "done"
    /\ rgb = Red350
    /\ Gt(hsv.h, 345, 1)
    /\ colorName \in RedNames

(***************************************************************************)
(* Properties of the dominant colour detection (SpecAnalyze).              *)
(***************************************************************************)
Filtered == pc \in {"fit", "select", "done"}

\* what the call under way, or the last one, gave
LastResult == results[Len(results)]

NearWhite(p) == Sum3(p) > 700

AllNearWhite(img) == \A p \in PixelValues : img[p] > 0 => NearWhite(p)

\* nine pixels in ten near-white, one in ten of one blue that is not
IsNearWhiteWithBlue(img, b) ==
    /\ ~NearWhite(b)
    /\ rgb_to_color_name(b, 1) \in BlueNames
    /\ 10 * img[b] = NumPixels
    /\ \A p \in PixelValues \ {b} : img[p] > 0 => NearWhite(p)

\* C7: background suppression discards exactly the pixels with
\* R+G+B > 700: every pixel of channel sum above 700 is removed, every
\* pixel of channel sum 700 or less is kept.
C7_Suppression ==
    Filtered =>
        \A p \in PixelValues :
            non_white_pixels[p] = IF Sum3(p) > 700 THEN 0 ELSE pixels[p]

\* C8: when suppression removes every pixel of an image, the analysis goes
\* on with the unfiltered pixels and returns a palette name; it does not
\* fail and clusters no empty set.
C8_Fallback ==
    (pc = "done" /\ AllNearWhite(image)) =>
        /\ LastResult \in Palette
        /\ kmeans.ok
        /\ n_samples(non_white_pixels) > 0

\* C9: for an image of 90% near-white pixels and 10% pixels of one blue,
\* the name returned is a blue one, never white or a gray.
C9_BlueDominates ==
    \A b \in PixelValues :
        (pc = "done" /\ IsNearWhiteWithBlue(image, b)) =>
            LastResult \in BlueNames

Records == 1..Len(metadata)

\* the last call of _analyze_image for an upload
LastOutcome == outcomes[Len(outcomes)]

\* the step in which the AI service serves the upload request
Served == request.stage = "service" /\ request'.stage = "answered"

\* the characters of a text with the first one of every word in upper case
Capitalized(str) ==
    [i \in 1..Len(str) |->
        IF i = 1 \/ str[i - 1] = " " THEN UpperChar(str[i]) ELSE str[i]]

\* C11: when the colour analysis of an upload raises DecodeError,
\* _analyze_image raises that same DecodeError, no record is returned, and
\* no record is added to or changed in the metadata.
C11_DecodeErrorPropagates ==
    [][(Served /\ request.content \notin Decodable) =>
           /\ ~outcomes'[Len(outcomes')].ok
           /\ outcomes'[Len(outcomes')].error = "DecodeError"
           /\ request'.response = [status |-> 500, detail |-> "DecodeError"]
           /\ metadata' = metadata]_vars

C11_Witness ==
    /\ request.stage = "answered"
    /\ request.content = "corrupt"
    /\ ~LastOutcome.ok
    /\ request.response.status = 500
    /\ Len(metadata) = 1

\* C12: the description of every record is its colour name, one space and
\* its category name, with every word capitalized ("dark blue" and "shirt"
\* give "Dark Blue Shirt").
C12_Description ==
    \A k \in Records :
        metadata[k].description =
            Capitalized(Chars(metadata[k].color) \o <<" ">>
                        \o Chars(metadata[k].category))

\* C13: re-analysis leaves the id, filename and path of every stored
\* record and the stored ids as they are; only category, color and
\* description may change.  (No other step changes them either.)
C13_ReanalysisFrame ==
    [][/\ Len(metadata') >= Len(metadata)
       /\ \A k \in Records :
              /\ metadata'[k].id = metadata[k].id
              /\ metadata'[k].filename = metadata[k].filename
              /\ metadata'[k].path = metadata[k].path
       /\ (regens' # regens =>
              {metadata'[k].id : k \in 1..Len(metadata')}
                  = {metadata[k].id : k \in Records})]_vars

C13_Witness ==
    /\ regens > 0
    /\ \E k \in Records :
        /\ created[k].changed
        /\ metadata[k].color # created[k].item.color
        /\ metadata[k].description # created[k].item.description
        /\ metadata[k].id = created[k].item.id
        /\ metadata[k].path = created[k].item.path

\* C14: after any number of re-analyses, a record whose file did not
\* change has the color, category and description it had when created.
C14_Idempotent ==
    \A k \in Records :
        (regens > 0 /\ ~created[k].changed) =>
            /\ metadata[k].color = created[k].item.color
            /\ metadata[k].category = created[k].item.category
            /\ metadata[k].description = created[k].item.description

\* C15: every stored record has a category of the taxonomy and a colour
\* of the palette, whatever uploads (with or without a category given) and
\* re-analyses were made.
C15_Enumerations ==
    \A k \in Records :
        /\ metadata[k].category \in Categories
        /\ metadata[k].color \in Palette

\* C16: in every state of the store the description of each record is the
\* description composed from the colour and the category the record has.
C16_DescriptionDerived ==
    \A k \in Records :
        metadata[k].description =
            description_of(metadata[k].color, metadata[k].category)

C16_Witness ==
    /\ regens > 0
    /\ \E k \in Records :
        /\ metadata[k].color # created[k].item.color
        /\ metadata[k].description =
               description_of(metadata[k].color, metadata[k].category)
    /\ \E k \in Records : created[k].item.category \notin Categories

\* C17: an upload of which the analysis fails is answered with an error,
\* and the upload page then sets error and appends no item; an upload of a
\* valid all-white image is answered with success and colour white; no
\* failed upload is answered as a success.
C17_Distinguishable ==
    [][(request.stage = "settled" /\ request'.stage # "settled") =>
           LET answer == request.response IN
           /\ ~LastOutcome.ok =>
                  /\ answer.status # 200
                  /\ error' # NoError
                  /\ uploadedItems' = uploadedItems
           /\ request.content = "white" =>
                  /\ answer.status = 200
                  /\ answer.data.success = TRUE
                  /\ answer.data.data.item.color = "white"
           /\ answer.status = 200 => LastOutcome.ok]_vars

\* C19: every successful analysis of an upload creates one record; the
\* ids of the stored records are pairwise distinct, and each record has the
\* id it was created with.
C19_UniqueIds ==
    /\ Len(metadata) = Cardinality({k \in 1..Len(outcomes) : outcomes[k].ok})
    /\ \A i, j \in Records : i # j => metadata[i].id # metadata[j].id
    /\ \A k \in Records : metadata[k].id = created[k].item.id

C19_Witness ==
    /\ Len(metadata) = 2
    /\ regens > 0
    /\ metadata[1].filename = metadata[2].filename
    /\ metadata[1].id # metadata[2].id
    /\ uuids > 2

(***************************************************************************)
(* Properties of parallel calls (SpecCalls).                               *)
(***************************************************************************)
\* what the i-th call gives when it is the only one
Alone(i) == analyze_image(calls[i].name, calls[i].content, i, 0)

SameAsAlone(i) ==
    IF Alone(i).ok
    THEN /\ calls[i].error = None
         /\ calls[i].category = Alone(i).item.category
         /\ calls[i].color = Alone(i).item.color
    ELSE /\ calls[i].error = Alone(i).error
         /\ calls[i].color = None

\* C18: in every interleaving of parallel calls each call gives the
\* category and the colour (or the exception) it gives when run alone, and
\* the pixel buffers and the fitted model of a call change only in steps of
\* that call.
C18_Independent ==
    /\ [](\A i \in Procs : calls[i].pc = "done" => SameAsAlone(i))
    /\ [][\A i \in Procs :
              frames'[frame(i)] # frames[frame(i)] => calls'[i] # calls[i]]_vars

C18_Witness ==
    /\ \A i \in Procs : calls[i].pc = "done" /\ calls[i].overlapped
    /\ calls[1].content = "navy" /\ calls[1].color = "navy"
    /\ calls[2].content = "mixed" /\ calls[2].color \in {"navy", "red"}
    /\ frames[1].pixels # frames[2].pixels

(***************************************************************************)
(* The number of pixels clustered (SpecAnalyze).                           *)
(***************************************************************************)
\* C20: at most 1000 pixels are passed to clustering: when more than 1000
\* are left after background suppression, exactly 1000 of them are
\* clustered, otherwise all of them.
C20_Cap ==
    pc = "select" =>
        LET left == n_samples(non_white_pixels)
            clustered == kmeans.label_counts[1] + kmeans.label_counts[2]
                         + kmeans.label_counts[3]
        IN  clustered = IF left > 1000 THEN 1000 ELSE left

(***************************************************************************)
(* The cluster selected and degenerate pixel sets (SpecAnalyze).           *)
(***************************************************************************)
\* a call that ended with a name: the cluster model was fitted
Selected == pc = "done" /\ kmeans.ok

\* C21: the dominant colour is the centre of a cluster of the largest
\* membership count among the three: no cluster has strictly more member
\* pixels than the selected one, and the name returned is the
\* classification of that centre.
C21_LargestCluster ==
    Selected =>
        \E k \in 1..n_clusters :
            /\ rgb = kmeans.cluster_centers[k]
            /\ \A j \in 1..n_clusters :
                   kmeans.label_counts[j] <= kmeans.label_counts[k]
            /\ LastResult = rgb_to_color_name(rgb, CentroidScale)

\* three clusters of different sizes, the largest not the first
C21_Witness ==
    /\ Selected
    /\ \A j \in 1..n_clusters : kmeans.label_counts[j] > 0
    /\ kmeans.label_counts[1] < kmeans.label_counts[2]
       \/ kmeans.label_counts[1] < kmeans.label_counts[3]
    /\ rgb # kmeans.cluster_centers[1]
    /\ LastResult \in Palette

\* the pixel values of the largest number of pixels in a set
MostFrequent(X) ==
    { p \in Support(X) : \A q \in Support(X) : X[q] <= X[p] }

\* the set has pixels, of fewer values than there are clusters
Degenerate(X) == Cardinality(Support(X)) \in 1..(n_clusters - 1)

\* C22: when the pixel set given to clustering has fewer distinct pixel
\* values than clusters, the analysis does not fail: the name returned is
\* the palette name of the single most frequent pixel value.
C22_DegenerateFallback ==
    (pc = "done" /\ Degenerate(non_white_pixels)) =>
        \E p \in MostFrequent(non_white_pixels) :
            LastResult = rgb_to_color_name(p, 1)

(***************************************************************************)
(* The entry the upload page keeps of an uploaded file (SpecStore).        *)
(***************************************************************************)
\* the upload page has just appended an entry
EntryAppended == Len(uploadedItems') = Len(uploadedItems) + 1

\* C23: after a successful upload the entry the upload page appends
\* carries the id, the category and the colour of the record the AI
\* service created and returned in its answer (message, item, filename),
\* which the proxy wraps under data.
C23_EntryOfItem ==
    [][EntryAppended =>
          LET entry == uploadedItems'[Len(uploadedItems')]
              item == request.response.data.data.item
          IN  /\ item = metadata[Len(metadata)]
              /\ entry.category = item.category
              /\ entry.color = item.color
              /\ entry.id = item.id]_vars

(***************************************************************************)
(* The files of one drop and the spinner of the upload page (SpecPage).    *)
(***************************************************************************)
\* the answer reports success
Success(response) ==
    response.status = 200 /\ Truthy(response.data, "success")

RECURSIVE Successes(_)
Successes(answers) ==
    IF answers = <<>> THEN 0
    ELSE (IF Success(Head(answers)) THEN 1 ELSE 0) + Successes(Tail(answers))

RECURSIVE SuccessesOf(_)
SuccessesOf(d) ==
    IF d = 0 THEN 0 ELSE Successes(drops[d].settled) + SuccessesOf(d - 1)

\* the files of a drop are requested in list order, one request at a time
InOrder(d) ==
    /\ drops[d].sent = SubSeq(drops[d].acceptedFiles, 1, Len(drops[d].sent))
    /\ Len(drops[d].sent) - Len(drops[d].settled) =
           IF drops[d].pc = "await" THEN 1 ELSE 0

\* a drop ends when every one of its files was requested and settled
AllTried(d) ==
    drops[d].pc = "done" =>
        /\ drops[d].sent = drops[d].acceptedFiles
        /\ Len(drops[d].settled) = Len(drops[d].acceptedFiles)

\* a request that settles adds one entry, of its file, when the answer
\* reports success and none when it does not
OneEntry(d) ==
    Len(drops'[d].settled) = Len(drops[d].settled) + 1 =>
        LET response == drops'[d].settled[Len(drops'[d].settled)]
            name == drops[d].acceptedFiles[drops[d].i]
        IN  IF Success(response)
            THEN /\ Len(uploadedItems') = Len(uploadedItems) + 1
                 /\ SubSeq(uploadedItems', 1, Len(uploadedItems)) = uploadedItems
                 /\ uploadedItems'[Len(uploadedItems')].filename = name
            ELSE uploadedItems' = uploadedItems

\* C28: one drop uploads its accepted files one at a time in list order,
\* the next request starting only after the one before has settled; a
\* failed upload does not stop the files left, and uploadedItems gains
\* exactly one entry for each file whose answer reports success and none
\* for a failed file.
C28_OneAtATime ==
    /\ [](\A d \in DropIds : InOrder(d) /\ AllTried(d))
    /\ [](Len(uploadedItems) = SuccessesOf(MaxDrops))
    /\ [][\A d \in DropIds : OneEntry(d)]_vars

\* a drop of two files has ended, the first file failed and the second
\* gave the only entry
C28_Witness ==
    \E d \in DropIds :
        /\ drops[d].pc = "done"
        /\ Len(drops[d].acceptedFiles) = MaxFiles
        /\ ~Success(drops[d].settled[1])
        /\ Success(drops[d].settled[MaxFiles])
        /\ Len(uploadedItems) = Successes(drops[d].settled)
        /\ Len(uploadedItems) > 0

\* C29: isUploading is true whenever an upload request that onDrop started
\* is in flight, and is false only when none is, also when a second drop
\* starts before the first one has ended.
C29_Spinner ==
    (\E d \in DropIds : drops[d].pc = "await") => isUploading

(***************************************************************************)
(* The list the wardrobe page shows (SpecWardrobe).                        *)
(***************************************************************************)
\* the same letter, in whichever case
SameLetter(a, b) == a = b \/ UpperChar(a) = b \/ a = UpperChar(b)

\* str contains pat, the case of the letters left aside
ContainsAnyCase(str, pat) ==
    \E i \in 0..(Len(str) - Len(pat)) :
        \A j \in 1..Len(pat) : SameLetter(str[i + j], pat[j])

\* an item the three filters let through
Shown(item) ==
    /\ selectedCategory = All \/ item.category = selectedCategory
    /\ selectedColor = All \/ item.color = selectedColor
    /\ \/ ContainsAnyCase(item.filename, searchTerm)
       \/ ContainsAnyCase(item.category, searchTerm)
       \/ ContainsAnyCase(item.color, searchTerm)

\* C24: once the filter effect has run, filteredItems is the sub-list of
\* wardrobeItems, in the same order, of the items whose category is the
\* selected one or the selection is 'all', whose colour is the selected
\* one or the selection is 'all', and whose filename, category or colour
\* contains the search term in whichever case; after Clear Filters it is
\* wardrobeItems.
C24_Filtered ==
    ~effectPending =>
        /\ filteredItems = SelectSeq(wardrobeItems, Shown)
        /\ pc = "clearFilters" => filteredItems = wardrobeItems

\* a search in capitals has kept some items and dropped others, with a
\* category selected
C24_Witness ==
    /\ ~effectPending
    /\ Len(wardrobeItems) = MaxItems
    /\ selectedCategory # All
    /\ searchTerm # <<>> /\ searchTerm # toLowerCase(searchTerm)
    /\ Len(filteredItems) > 0
    /\ Len(filteredItems) < Len(SelectSeq(wardrobeItems,
                                 LAMBDA item : item.category = selectedCategory))

(***************************************************************************)
(* What the proxy sends to the AI service (SpecProxy).                     *)
(***************************************************************************)
\* the request has what its handler needs: the image, or a query
InputPresent(h) ==
    IF h.handler = "ask"
    THEN h.input.json = "object" /\ ~NoQuery(h.input)
    ELSE h.input.part # "none"

\* the number of handled requests, up to the k-th, that went to the AI
\* service
RECURSIVE SentUpTo(_)
SentUpTo(k) ==
    IF k = 0 THEN 0 ELSE (IF handled[k].sent THEN 1 ELSE 0) + SentUpTo(k - 1)

\* C25: the proxy handlers contact the AI service only for a request with
\* the permitted method and the required input: OPTIONS is answered 200,
\* any other method but POST 405, an upload without an image file 400, an
\* ask without a query 400, and in none of these cases a request is sent
\* to the AI service.
C25_ProxyGuards ==
    /\ Len(aiRequests) = SentUpTo(Len(handled))
    /\ \A k \in 1..Len(handled) :
          LET h == handled[k]
          IN  /\ h.sent => h.method = "POST" /\ InputPresent(h)
              /\ h.method = "OPTIONS" => h.status = 200
              /\ h.method \notin {"OPTIONS", "POST"} => h.status = 405
              /\ (h.method = "POST" /\ ~InputPresent(h)) => h.status = 400

(***************************************************************************)
(* The requests of the chat page (SpecChat, SpecChatFair).                 *)
(***************************************************************************)
Outstanding == { k \in 1..Len(asks) : asks[k].pc = "await" }

\* the positions in messages of the messages of one role for the k-th send
MessagesOf(role, k) ==
    { i \in 1..Len(messages) : messages[i].role = role /\ messages[i].ask = k }

OneAnswer(k) ==
    /\ Cardinality(MessagesOf("user", k)) = 1
    /\ Cardinality(MessagesOf("assistant", k)) =
           IF asks[k].pc = "done" THEN 1 ELSE 0
    /\ \A i \in MessagesOf("assistant", k) :
          /\ \A j \in MessagesOf("user", k) : j < i
          /\ messages[i].content =
                 IF asks[k].outcome = "reply" THEN Reply ELSE ErrorText

Answered(k) ==
    /\ Len(asks) >= k /\ asks[k].pc = "done"
    /\ Cardinality(MessagesOf("assistant", k)) = 1
    /\ ~isLoading

\* C27: every accepted send appends the user message before the request is
\* issued and is followed in the end by exactly one assistant message, the
\* reply of the service or the fixed error text when the request fails or
\* reports no success, after which isLoading is false again.
C27_AnsweredOnce ==
    /\ [](\A k \in 1..Len(asks) : OneAnswer(k))
    /\ \A k \in 1..MaxAsks : (Len(asks) >= k) ~> Answered(k)

\* two sends are settled, one with the reply and one with the error text
C27_Witness ==
    /\ Len(asks) = MaxAsks
    /\ \A k \in 1..MaxAsks : Answered(k)
    /\ \E i, j \in 1..Len(messages) :
          /\ messages[i].content = Reply /\ messages[i].ask > 0
          /\ messages[j].content = ErrorText

(***************************************************************************)
(* Cycling through the items of a category (SpecTryOn).                    *)
(***************************************************************************)
\* the number of wardrobe items of a category
CountOf(cat) ==
    Cardinality({ k \in 1..Len(wardrobeItems) : wardrobeItems[k].category = cat })

\* the k-th wardrobe item of a category, counted from 0
RECURSIVE ItemAt(_, _, _)
ItemAt(cat, k, from) ==
    IF wardrobeItems[from].category = cat
    THEN IF k = 0 THEN wardrobeItems[from] ELSE ItemAt(cat, k - 1, from + 1)
    ELSE ItemAt(cat, k, from + 1)

\* what a call of cycleItem has to do
Cycled(cat, direction) ==
    LET n == CountOf(cat)
        old == currentIndices[cat]
        new == currentIndices'[cat]
    IN  IF n = 0
        THEN UNCHANGED <<currentIndices, outfit>>
        ELSE /\ new \in 0..(n - 1)
             /\ direction = "next" => new = IF old = n - 1 THEN 0 ELSE old + 1
             /\ direction = "prev" => new = IF old = 0 THEN n - 1 ELSE old - 1
             /\ outfit'[cat] = ItemAt(cat, new, 1)
             /\ \A c \in SlotCategories \ {cat} :
                    /\ currentIndices'[c] = currentIndices[c]
                    /\ outfit'[c] = outfit[c]

\* C30: cycleItem keeps currentIndices[category] within 0..n-1, n the
\* number of wardrobe items of the category: next from n-1 wraps to 0,
\* prev from 0 wraps to n-1, the slot of the category is set to the item
\* at the new index, the indices and slots of the other categories are
\* unchanged, and for n = 0 nothing changes.
C30_Cycle ==
    /\ [](\A cat \in SlotCategories :
             currentIndices[cat] \in 0..(IF CountOf(cat) = 0 THEN 0
                                         ELSE CountOf(cat) - 1))
    /\ [][\A cat \in SlotCategories, direction \in Directions :
             CycleItem(cat, direction) => Cycled(cat, direction)]_vars

\* with three tops, cycling has brought the index of the tops to the last
\* one and the slot holds that top
C30_Witness ==
    /\ pc = "cycleItem"
    /\ CountOf("top") = MaxItems
    /\ currentIndices["top"] = MaxItems - 1
    /\ outfit["top"] = ItemAt("top", MaxItems - 1, 1)

====
